---- MODULE Spec2Model ----
(***************************************************************************)
(* A model of src/remote_pc.py (PCRemoteControl): the modifier-key state   *)
(* machine (_handle_modifier_press, _handle_standard_key_press,            *)
(* _clear_modifier_state and the threading.Timer that calls it), the      *)
(* sliding-window rate limiter (_rate_limit_check), the snapshot of the    *)
(* host's processes (_update_running_apps_cache), app_toggle, and the      *)
(* path of a request through before_request, login, logout,                *)
(* login_required and handle_action.                                       *)
(*                                                                         *)
(* The Flask server runs with threaded=True (run_flask), so every request  *)
(* handler runs on a thread of its own, and every threading.Timer runs its *)
(* callback on a thread of its own.  The code takes no lock anywhere, so   *)
(* a handler or callback is modelled as a sequence of steps, one per       *)
(* access to the shared attributes, which other threads may interleave.    *)
(***************************************************************************)
EXTENDS Integers, Sequences, FiniteSets, TLC

(* ------------------------------ bounds -------------------------------- *)
\* Request threads the server runs at once.
NumThreads == 2
\* Requests served in one behaviour when one request is handled at a time
\* (a request creates at most one timer).
MaxRequests == 3
\* Requests served in one behaviour when handlers overlap.
MaxConcurrent == 2

\* config.MAX_REQUESTS_PER_MINUTE (120 unless config.json sets another)
MAX_REQUESTS_PER_MINUTE == 2
\* Times the clock advances in one behaviour.
MaxTicks == 2

(* ------------------------- program constants -------------------------- *)
\* self.modifier_key_timer = None, self.active_modifier = None
None == 0
Modifiers == {"alt", "ctrl", "shift"}
MODIFIER_MAP == [alt |-> "alt", ctrl |-> "leftctrl", shift |-> "leftshift"]
\* key_command of two of the action table's standard keys (press_del, press_enter)
Keys == {"delete", "enter"}
\* The order in which a Python set yields its elements is the order of its
\* hash table's slots: arbitrary, but fixed while the process runs.  The code
\* treats the three modifiers alike, so one order stands for all six.
SetOrder == <<"alt", "ctrl", "shift">>

Threads == {100 + i : i \in 1..NumThreads}
TimerIds == 1..MaxRequests
Procs == Threads \cup TimerIds

VARIABLES
    active_modifier,     \* self.active_modifier: set to None at construction, never assigned
    active_modifiers,    \* self.active_modifiers
    modifier_key_timer,  \* self.modifier_key_timer: a timer id, or None
    timer_state,         \* each threading.Timer object's state
    last_key_cmd,        \* per modifier, the latest sendkey command issued: "none", "down", "up"
    pc,                  \* where each request thread or timer callback stands
    arg,                 \* the handler's argument (modifier or key_command)
    local,               \* the handler's locals: message and full_command
    iter,                \* the set iterator of the for loop of _clear_modifier_state
    ret,                 \* where _clear_modifier_state returns to
    sent,                \* commands the current handler invocation has issued, with their outcome
    result,              \* the dict the handler returned (or the 500 of an exception)
    pre,                 \* history: active_modifiers when the handler started
    nreq,                \* history: requests started so far
    hist,                \* history: the operations of a run that serves one at a time, in order
    request_counts,      \* self.request_counts: client -> list of datetimes
    clock,               \* what datetime.now() returns, in seconds
    rl_pc,               \* where each thread stands in _rate_limit_check, or what it returns
    rl_local,            \* its client_ip and now, and the list line 98 has built
    rl_log,              \* history: per client, each check's time and answer
    nticks,              \* history: times the clock has advanced
    processes,           \* the host: names (lower case) of the processes that run now
    running_apps_cache,  \* self.running_apps_cache
    last_cache_update,   \* self.last_cache_update, in seconds
    ca_pc,               \* where each thread stands in _update_running_apps_cache
    ca_local,            \* its force argument, and what the call has seen and done
    ca_log,              \* history: the reads of the cache, in order
    at_local,            \* app_toggle's is_running, and the snapshot its answer went with
    app_enabled,         \* self.app_enabled
    session,             \* each browser's Flask session
    req,                 \* the request each thread serves, and how far it has come
    response             \* what the thread answers

mvars == <<active_modifier, active_modifiers, modifier_key_timer, timer_state,
           last_key_cmd, pc, arg, local, iter, ret, sent, result, pre, nreq, hist>>
rvars == <<request_counts, clock, rl_pc, rl_local, rl_log, nticks>>
cvars == <<processes, running_apps_cache, last_cache_update, ca_pc, ca_local, ca_log,
           at_local>>
svars == <<app_enabled, session, req, response>>
\* What the modifier state machine's code does not touch.
elsewhere == <<rvars, cvars, svars>>
vars == <<mvars, rvars, cvars, svars>>

NoCommand == [verb |-> "", keys |-> <<>>, dir |-> ""]
NoLocal == [handler |-> "", message |-> "", full_command |-> NoCommand, success |-> FALSE]
NoIter == [pos |-> 0, size |-> 0]
NoResult == [status |-> 0, success |-> FALSE, message |-> "", activeModifiers |-> <<>>]
ServerError == [status |-> 500, success |-> FALSE, message |-> "", activeModifiers |-> <<>>]

\* timedelta(minutes=1), in seconds
Window == 60
\* By how much the clock advances between two readings of it: the window is
\* one second and 59 more.
Delays == {1, 59}
\* request.remote_addr of two clients
Clients == {"10.0.0.1", "10.0.0.2"}
NoCheck == [client_ip |-> "", now |-> 0, kept |-> <<>>]

\* Two of the apps of _define_apps: "npp" can be closed, "task_manager" cannot.
APPS ==
    [npp |-> [exe |-> "notepad++.exe", process_name |-> "notepad++.exe", closable |-> TRUE],
     task_manager |-> [exe |-> "Taskmgr.exe", process_name |-> "taskmgr.exe",
                       closable |-> FALSE]]
AppNames == DOMAIN APPS
ProcessNames == {APPS[a].process_name : a \in AppNames}
\* self.cache_ttl = timedelta(seconds=2)
cache_ttl == 2
\* datetime.min: further back than any TTL
DatetimeMin == 0 - cache_ttl
NoUpdate == [force |-> FALSE, now |-> 0, before |-> {}, stamp_before |-> 0,
             probed |-> "", probe |-> {}]
NoToggle == [is_running |-> FALSE, seen |-> {}]

\* The browsers, each with its session cookie.
Sessions == {"s1", "s2"}
\* A key the session dict does not hold.
Absent == 0 - 1
NoSession == [logged_in |-> FALSE, last_activity |-> Absent]
\* What a request finds when it arrives: the state it must leave alone when
\* it is turned away
NoSnapshot == [session |-> NoSession, counts |-> <<>>, clock |-> 0,
               active_modifiers |-> {}, modifier_key_timer |-> 0,
               timer_state |-> [i \in TimerIds |-> "free"],
               running_apps_cache |-> {}, last_cache_update |-> 0, processes |-> {}]
NoRequestYet == [stage |-> "idle", client |-> "", session |-> "", route |-> "", name |-> "",
                 before |-> NoSnapshot]
NoResponse == [status |-> 0]

(* ----------------------------- helpers -------------------------------- *)
\* list(self.active_modifiers): the set's elements in slot order
RECURSIVE ListFrom(_, _)
ListFrom(S, i) ==
    IF i > Len(SetOrder) THEN <<>>
    ELSE IF SetOrder[i] \in S THEN <<SetOrder[i]>> \o ListFrom(S, i + 1)
    ELSE ListFrom(S, i + 1)
List(S) == ListFrom(S, 1)

\* f'"{self.nircmd}" sendkey {MODIFIER_MAP[modifier]} up|down'
SendKey(m, dir) == [verb |-> "sendkey", keys |-> <<MODIFIER_MAP[m]>>, dir |-> dir]
\* f'"{self.nircmd}" sendkeypress {combo}+{key_command}' and '... sendkeypress {key_command}'
SendKeyPress(mods, key) ==
    [verb |-> "sendkeypress",
     keys |-> [i \in 1..Len(mods) |-> MODIFIER_MAP[mods[i]]] \o <<key>>,
     dir |-> "press"]

\* threading.Thread.is_alive() of a Timer: started and not yet terminated
IsAlive(s) == s \in {"waiting", "cancelled", "running"}
\* threading.Timer.cancel(): sets the finished event; no effect once the
\* callback runs or the thread is gone
Cancelled(s) ==
    CASE s = "waiting" -> "cancelled"
      [] s = "new" -> "newc"
      [] OTHER -> s

\* _execute_command's effect on what the host was sent
KeyCmdAfter(cmd) ==
    [m \in Modifiers |->
        IF cmd.verb = "sendkey" /\ cmd.keys = <<MODIFIER_MAP[m]>>
        THEN cmd.dir ELSE last_key_cmd[m]]
SentAfter(p, cmd, ok) ==
    IF p \in Threads THEN [sent EXCEPT ![p] = Append(@, [cmd |-> cmd, ok |-> ok])]
    ELSE sent

\* An exception leaves the handler (Flask answers 500) or ends the timer thread.
Raise(p) ==
    /\ pc' = [pc EXCEPT ![p] = IF p \in Threads THEN "error" ELSE "off"]
    /\ result' = IF p \in Threads THEN [result EXCEPT ![p] = ServerError] ELSE result
    /\ timer_state' = IF p \in TimerIds THEN [timer_state EXCEPT ![p] = "done"]
                      ELSE timer_state

Init ==
    /\ active_modifier = None
    /\ active_modifiers = {}
    /\ modifier_key_timer = None
    /\ timer_state = [i \in TimerIds |-> "free"]
    /\ last_key_cmd = [m \in Modifiers |-> "none"]
    /\ pc = [p \in Procs |-> IF p \in Threads THEN "idle" ELSE "off"]
    /\ arg = [t \in Threads |-> ""]
    /\ local = [t \in Threads |-> NoLocal]
    /\ iter = [p \in Procs |-> NoIter]
    /\ ret = [p \in Procs |-> ""]
    /\ sent = [t \in Threads |-> <<>>]
    /\ result = [t \in Threads |-> NoResult]
    /\ pre = [t \in Threads |-> {}]
    /\ nreq = 0
    /\ hist = <<>>
    /\ request_counts = <<>>
    /\ clock = 0
    /\ rl_pc = [t \in Threads |-> "idle"]
    /\ rl_local = [t \in Threads |-> NoCheck]
    /\ rl_log = [c \in Clients |-> <<>>]
    /\ nticks = 0
    /\ processes = {}
    /\ running_apps_cache = {}
    /\ last_cache_update = DatetimeMin
    /\ ca_pc = [t \in Threads |-> "idle"]
    /\ ca_local = [t \in Threads |-> NoUpdate]
    /\ ca_log = <<>>
    /\ at_local = [t \in Threads |-> NoToggle]
    /\ app_enabled = TRUE
    /\ session = [s \in Sessions |-> NoSession]
    /\ req = [t \in Threads |-> NoRequestYet]
    /\ response = [t \in Threads |-> NoResponse]

(* ---------------- _clear_modifier_state (lines 300-310) ---------------- *)
\* The slot the set iterator yields next: the first one after pos that holds
\* an element, 0 when there is none (StopIteration).
NextSlot(S, pos) ==
    LET later == {i \in 1..Len(SetOrder) : i > pos /\ SetOrder[i] \in S}
    IN IF later = {} THEN 0 ELSE CHOOSE i \in later : \A j \in later : i <= j

\* The call: the for loop takes an iterator of self.active_modifiers, which
\* remembers the set's size.
EnterClear(p, back) ==
    /\ iter' = [iter EXCEPT ![p] = [pos |-> 0, size |-> Cardinality(active_modifiers)]]
    /\ ret' = [ret EXCEPT ![p] = back]

\* A variant of ClearLoop whose loop releases no key.
ClearLoopReleasesNothing(p) ==
    /\ pc[p] = "cl_loop"
    /\ pc' = [pc EXCEPT ![p] = "cl_check"]
    /\ UNCHANGED <<active_modifier, active_modifiers, modifier_key_timer, timer_state,
                   last_key_cmd, arg, local, iter, ret, sent, result, pre, nreq, hist,
                   elsewhere>>

\* Lines 302-303: one turn of the loop.  The iterator raises RuntimeError
\* ("Set changed size during iteration") when the set's size is no longer
\* the one it remembers; otherwise the key-up of the next element is issued.
ClearLoop(p) ==
    /\ pc[p] = "cl_loop"
    /\ \E ok \in BOOLEAN :
        LET i == NextSlot(active_modifiers, iter[p].pos) IN
        IF Cardinality(active_modifiers) # iter[p].size
        THEN /\ Raise(p)
             /\ UNCHANGED <<last_key_cmd, sent, iter>>
        ELSE IF i # 0
        THEN /\ last_key_cmd' = KeyCmdAfter(SendKey(SetOrder[i], "up"))
             /\ sent' = SentAfter(p, SendKey(SetOrder[i], "up"), ok)
             /\ iter' = [iter EXCEPT ![p].pos = i]
             /\ UNCHANGED <<pc, result, timer_state>>
        ELSE /\ pc' = [pc EXCEPT ![p] = "cl_check"]
             /\ UNCHANGED <<last_key_cmd, sent, iter, result, timer_state>>
    /\ UNCHANGED <<active_modifier, active_modifiers, modifier_key_timer, arg, local,
                   ret, pre, nreq, hist, elsewhere>>

\* ClearCheck with the timer never found alive: the cancel is skipped.
ClearCheckSkipsCancel(p) ==
    /\ pc[p] = "cl_check"
    /\ pc' = [pc EXCEPT ![p] = "cl_clear"]
    /\ UNCHANGED <<active_modifier, active_modifiers, modifier_key_timer, timer_state,
                   last_key_cmd, arg, local, iter, ret, sent, result, pre, nreq, hist, elsewhere>>

\* Line 305: if self.modifier_key_timer and self.modifier_key_timer.is_alive()
ClearCheck(p) ==
    /\ pc[p] = "cl_check"
    /\ pc' = [pc EXCEPT ![p] =
                IF modifier_key_timer # None /\ IsAlive(timer_state[modifier_key_timer])
                THEN "cl_cancel" ELSE "cl_clear"]
    /\ UNCHANGED <<active_modifier, active_modifiers, modifier_key_timer, timer_state,
                   last_key_cmd, arg, local, iter, ret, sent, result, pre, nreq, hist, elsewhere>>

\* Line 306: self.modifier_key_timer.cancel(), on the attribute as it is now
\* (AttributeError when it has become None)
ClearCancel(p) ==
    /\ pc[p] = "cl_cancel"
    /\ IF modifier_key_timer = None
       THEN Raise(p)
       ELSE /\ timer_state' = [timer_state EXCEPT ![modifier_key_timer] = Cancelled(@)]
            /\ pc' = [pc EXCEPT ![p] = "cl_clear"]
            /\ UNCHANGED result
    /\ UNCHANGED <<active_modifier, active_modifiers, modifier_key_timer,
                   last_key_cmd, arg, local, iter, ret, sent, pre, nreq, hist, elsewhere>>

\* Line 308: self.active_modifiers.clear()
ClearSet(p) ==
    /\ pc[p] = "cl_clear"
    /\ active_modifiers' = {}
    /\ pc' = [pc EXCEPT ![p] = "cl_none"]
    /\ UNCHANGED <<active_modifier, modifier_key_timer, timer_state,
                   last_key_cmd, arg, local, iter, ret, sent, result, pre, nreq, hist, elsewhere>>

\* Lines 309-310: self.modifier_key_timer = None, and the return.  A timer's
\* thread ends when its callback returns.
ClearNone(p) ==
    /\ pc[p] = "cl_none"
    /\ modifier_key_timer' = None
    /\ pc' = [pc EXCEPT ![p] = ret[p]]
    /\ timer_state' = IF p \in TimerIds THEN [timer_state EXCEPT ![p] = "done"]
                      ELSE timer_state
    /\ UNCHANGED <<active_modifier, active_modifiers,
                   last_key_cmd, arg, local, iter, ret, sent, result, pre, nreq, hist, elsewhere>>

(* ----------------------- threading.Timer (4.1 s) ----------------------- *)
\* The interval has passed and the timer was not cancelled: its thread calls
\* self._clear_modifier_state.
TimerFire(i, h) ==
    /\ timer_state[i] = "waiting"
    /\ hist' = h
    /\ timer_state' = [timer_state EXCEPT ![i] = "running"]
    /\ pc' = [pc EXCEPT ![i] = "cl_loop"]
    /\ EnterClear(i, "off")
    /\ UNCHANGED <<active_modifier, active_modifiers, modifier_key_timer,
                   last_key_cmd, arg, local, sent, result, pre, nreq, elsewhere>>

\* A cancelled timer's thread wakes up, skips the callback and ends.
TimerExit(i) ==
    /\ timer_state[i] = "cancelled"
    /\ timer_state' = [timer_state EXCEPT ![i] = "done"]
    /\ UNCHANGED <<active_modifier, active_modifiers, modifier_key_timer,
                   last_key_cmd, pc, arg, local, iter, ret, sent, result, pre, nreq, hist, elsewhere>>

(* ---------------- _handle_modifier_press (lines 312-330) --------------- *)
\* The dispatcher calls partial(self._handle_modifier_press, modifier).
StartToggle(t, m, h) ==
    /\ pc[t] = "idle"
    /\ hist' = h
    /\ pc' = [pc EXCEPT ![t] = "mp_check"]
    /\ arg' = [arg EXCEPT ![t] = m]
    /\ pre' = [pre EXCEPT ![t] = active_modifiers]
    /\ nreq' = nreq + 1
    /\ local' = [local EXCEPT ![t].handler = "_handle_modifier_press"]
    /\ UNCHANGED <<active_modifier, active_modifiers, modifier_key_timer, timer_state,
                   last_key_cmd, iter, ret, sent, result, elsewhere>>

\* Line 315: if self.modifier_key_timer and self.modifier_key_timer.is_alive()
ToggleCheck(t) ==
    /\ pc[t] = "mp_check"
    /\ pc' = [pc EXCEPT ![t] =
                IF modifier_key_timer # None /\ IsAlive(timer_state[modifier_key_timer])
                THEN "mp_cancel" ELSE "mp_test"]
    /\ UNCHANGED <<active_modifier, active_modifiers, modifier_key_timer, timer_state,
                   last_key_cmd, arg, local, iter, ret, sent, result, pre, nreq, hist, elsewhere>>

\* Line 316: self.modifier_key_timer.cancel()
ToggleCancel(t) ==
    /\ pc[t] = "mp_cancel"
    /\ IF modifier_key_timer = None
       THEN Raise(t)
       ELSE /\ timer_state' = [timer_state EXCEPT ![modifier_key_timer] = Cancelled(@)]
            /\ pc' = [pc EXCEPT ![t] = "mp_test"]
            /\ UNCHANGED result
    /\ UNCHANGED <<active_modifier, active_modifiers, modifier_key_timer,
                   last_key_cmd, arg, local, iter, ret, sent, pre, nreq, hist, elsewhere>>

\* ToggleTest with the membership test lost: every toggle adds.
ToggleTestNeverRemoves(t) ==
    /\ pc[t] = "mp_test"
    /\ pc' = [pc EXCEPT ![t] = "mp_add"]
    /\ UNCHANGED <<active_modifier, active_modifiers, modifier_key_timer, timer_state,
                   last_key_cmd, arg, local, iter, ret, sent, result, pre, nreq, hist, elsewhere>>

\* Line 318: if modifier in self.active_modifiers
ToggleTest(t) ==
    /\ pc[t] = "mp_test"
    /\ pc' = [pc EXCEPT ![t] = IF arg[t] \in active_modifiers THEN "mp_remove" ELSE "mp_add"]
    /\ UNCHANGED <<active_modifier, active_modifiers, modifier_key_timer, timer_state,
                   last_key_cmd, arg, local, iter, ret, sent, result, pre, nreq, hist, elsewhere>>

\* Line 319: self.active_modifiers.remove(modifier) (KeyError when it is gone)
ToggleRemove(t) ==
    /\ pc[t] = "mp_remove"
    /\ IF arg[t] \in active_modifiers
       THEN /\ active_modifiers' = active_modifiers \ {arg[t]}
            /\ pc' = [pc EXCEPT ![t] = "mp_up"]
            /\ UNCHANGED <<result, timer_state>>
       ELSE /\ Raise(t)
            /\ UNCHANGED active_modifiers
    /\ UNCHANGED <<active_modifier, modifier_key_timer,
                   last_key_cmd, arg, local, iter, ret, sent, pre, nreq, hist, elsewhere>>

\* Line 323: self.active_modifiers.add(modifier)
ToggleAdd(t) ==
    /\ pc[t] = "mp_add"
    /\ active_modifiers' = active_modifiers \cup {arg[t]}
    /\ pc' = [pc EXCEPT ![t] = "mp_down"]
    /\ UNCHANGED <<active_modifier, modifier_key_timer, timer_state,
                   last_key_cmd, arg, local, iter, ret, sent, result, pre, nreq, hist, elsewhere>>

\* Lines 320-321 and 324-325: the key-up or key-down command, whose outcome
\* (the bool _execute_command returns) is dropped, and the message.
ToggleExecute(t) ==
    /\ pc[t] \in {"mp_up", "mp_down"}
    /\ \E ok \in BOOLEAN :
        LET dir == IF pc[t] = "mp_up" THEN "up" ELSE "down" IN
        /\ last_key_cmd' = KeyCmdAfter(SendKey(arg[t], dir))
        /\ sent' = SentAfter(t, SendKey(arg[t], dir), ok)
        /\ local' = [local EXCEPT ![t].message =
                        IF dir = "up" THEN "released" ELSE "active"]
    /\ pc' = [pc EXCEPT ![t] = "mp_nonempty"]
    /\ UNCHANGED <<active_modifier, active_modifiers, modifier_key_timer, timer_state,
                   arg, iter, ret, result, pre, nreq, hist, elsewhere>>

\* Line 327: if self.active_modifiers
ToggleNonEmpty(t) ==
    /\ pc[t] = "mp_nonempty"
    /\ pc' = [pc EXCEPT ![t] = IF active_modifiers # {} THEN "mp_new" ELSE "mp_return"]
    /\ UNCHANGED <<active_modifier, active_modifiers, modifier_key_timer, timer_state,
                   last_key_cmd, arg, local, iter, ret, sent, result, pre, nreq, hist, elsewhere>>

\* The Timer object line 328 creates: the first id not in use
NewTimer == CHOOSE i \in TimerIds :
                /\ timer_state[i] = "free"
                /\ \A j \in TimerIds : j < i => timer_state[j] # "free"

\* Line 328: self.modifier_key_timer = threading.Timer(4.1, self._clear_modifier_state)
ToggleNewTimer(t) ==
    /\ pc[t] = "mp_new"
    /\ timer_state' = [timer_state EXCEPT ![NewTimer] = "new"]
    /\ modifier_key_timer' = NewTimer
    /\ pc' = [pc EXCEPT ![t] = "mp_start"]
    /\ UNCHANGED <<active_modifier, active_modifiers,
                   last_key_cmd, arg, local, iter, ret, sent, result, pre, nreq, hist, elsewhere>>

\* Line 329: self.modifier_key_timer.start(), on the attribute as it is now:
\* AttributeError when it has become None, RuntimeError ("threads can only be
\* started once") when it is a timer another thread has started already.  A
\* timer cancelled before its start ends without calling back.
ToggleStart(t) ==
    /\ pc[t] = "mp_start"
    /\ IF modifier_key_timer = None
       THEN Raise(t)
       ELSE IF timer_state[modifier_key_timer] \in {"new", "newc"}
       THEN /\ timer_state' = [timer_state EXCEPT ![modifier_key_timer] =
                                  IF @ = "new" THEN "waiting" ELSE "cancelled"]
            /\ pc' = [pc EXCEPT ![t] = "mp_return"]
            /\ UNCHANGED result
       ELSE Raise(t)
    /\ UNCHANGED <<active_modifier, active_modifiers, modifier_key_timer,
                   last_key_cmd, arg, local, iter, ret, sent, pre, nreq, hist, elsewhere>>

\* Line 330: return {"success": True, "message": message,
\*                   "activeModifiers": list(self.active_modifiers)}
ToggleReturn(t) ==
    /\ pc[t] = "mp_return"
    /\ result' = [result EXCEPT ![t] =
                    [status |-> 200, success |-> TRUE, message |-> local[t].message,
                     activeModifiers |-> List(active_modifiers)]]
    /\ pc' = [pc EXCEPT ![t] = "done"]
    /\ UNCHANGED <<active_modifier, active_modifiers, modifier_key_timer, timer_state,
                   last_key_cmd, arg, local, iter, ret, sent, pre, nreq, hist, elsewhere>>

(* ------------- _handle_standard_key_press (lines 332-351) -------------- *)
\* The dispatcher calls partial(self._handle_standard_key_press, key_command, message).
StartKeyPress(t, k, h) ==
    /\ pc[t] = "idle"
    /\ hist' = h
    /\ pc' = [pc EXCEPT ![t] = "kp_sleep"]
    /\ arg' = [arg EXCEPT ![t] = k]
    /\ pre' = [pre EXCEPT ![t] = active_modifiers]
    /\ nreq' = nreq + 1
    /\ local' = [local EXCEPT ![t].handler = "_handle_standard_key_press"]
    /\ UNCHANGED <<active_modifier, active_modifiers, modifier_key_timer, timer_state,
                   last_key_cmd, iter, ret, sent, result, elsewhere>>

\* Line 333: time.sleep(0.1)
KeySleep(t) ==
    /\ pc[t] = "kp_sleep"
    /\ pc' = [pc EXCEPT ![t] = "kp_test"]
    /\ UNCHANGED <<active_modifier, active_modifiers, modifier_key_timer, timer_state,
                   last_key_cmd, arg, local, iter, ret, sent, result, pre, nreq, hist, elsewhere>>

\* Lines 334-344: if self.active_modifier (the attribute __init__ sets to None,
\* not the set self.active_modifiers): the combined command of the held
\* modifiers and the call of _clear_modifier_state; else the plain command.
KeyTest(t) ==
    /\ pc[t] = "kp_test"
    /\ IF active_modifier # None
       THEN /\ local' = [local EXCEPT ![t].full_command =
                                          SendKeyPress(List(active_modifiers), arg[t]),
                                      ![t].message = "Sent combo"]
            /\ pc' = [pc EXCEPT ![t] = "cl_loop"]
            /\ EnterClear(t, "kp_exec")
       ELSE /\ local' = [local EXCEPT ![t].full_command = SendKeyPress(<<>>, arg[t]),
                                      ![t].message = "Sent"]
            /\ pc' = [pc EXCEPT ![t] = "kp_exec"]
            /\ UNCHANGED <<iter, ret>>
    /\ UNCHANGED <<active_modifier, active_modifiers, modifier_key_timer, timer_state,
                   last_key_cmd, arg, sent, result, pre, nreq, hist, elsewhere>>

\* Line 346: success = self._execute_command(full_command)
KeyExecute(t) ==
    /\ pc[t] = "kp_exec"
    /\ \E ok \in BOOLEAN :
        /\ last_key_cmd' = KeyCmdAfter(local[t].full_command)
        /\ sent' = SentAfter(t, local[t].full_command, ok)
        /\ local' = [local EXCEPT ![t].success = ok]
    /\ pc' = [pc EXCEPT ![t] = "kp_return"]
    /\ UNCHANGED <<active_modifier, active_modifiers, modifier_key_timer, timer_state,
                   arg, iter, ret, result, pre, nreq, hist, elsewhere>>

\* Lines 347-351: the returned dict
KeyReturn(t) ==
    /\ pc[t] = "kp_return"
    /\ result' = [result EXCEPT ![t] =
                    [status |-> 200, success |-> local[t].success,
                     message |-> IF local[t].success THEN local[t].message
                                 ELSE "Command failed",
                     activeModifiers |-> List(active_modifiers)]]
    /\ pc' = [pc EXCEPT ![t] = "done"]
    /\ UNCHANGED <<active_modifier, active_modifiers, modifier_key_timer, timer_state,
                   last_key_cmd, arg, local, iter, ret, sent, pre, nreq, hist, elsewhere>>

\* handle_action, line 209: the response leaves (or Flask's 500 does) and the
\* thread is free for the next request.
Respond(t) ==
    /\ pc[t] \in {"done", "error"}
    /\ pc' = [pc EXCEPT ![t] = "idle"]
    /\ arg' = [arg EXCEPT ![t] = ""]
    /\ local' = [local EXCEPT ![t] = NoLocal]
    /\ sent' = [sent EXCEPT ![t] = <<>>]
    /\ result' = [result EXCEPT ![t] = NoResult]
    /\ pre' = [pre EXCEPT ![t] = {}]
    /\ iter' = [iter EXCEPT ![t] = NoIter]
    /\ ret' = [ret EXCEPT ![t] = ""]
    /\ UNCHANGED <<active_modifier, active_modifiers, modifier_key_timer, timer_state,
                   last_key_cmd, nreq, hist, elsewhere>>


\* force_clear(): a call of _clear_modifier_state by a caller that waits for
\* its return, as the timer's thread and line 341 make it.
CallClear(t, h) ==
    /\ pc[t] = "idle"
    /\ hist' = h
    /\ pc' = [pc EXCEPT ![t] = "cl_loop"]
    /\ EnterClear(t, "done")
    /\ local' = [local EXCEPT ![t].handler = "_clear_modifier_state"]
    /\ pre' = [pre EXCEPT ![t] = active_modifiers]
    /\ nreq' = nreq + 1
    /\ UNCHANGED <<active_modifier, active_modifiers, modifier_key_timer, timer_state,
                   last_key_cmd, arg, sent, result, elsewhere>>


(* ------------------- _rate_limit_check (lines 95-102) ------------------ *)
\* before_request calls self._rate_limit_check(request.remote_addr).
\* Line 96: now = datetime.now()
RateStart(t, c) ==
    /\ rl_pc[t] = "idle"
    /\ rl_pc' = [rl_pc EXCEPT ![t] = "rl_setdefault"]
    /\ rl_local' = [rl_local EXCEPT ![t] = [client_ip |-> c, now |-> clock, kept |-> <<>>]]
    /\ UNCHANGED <<request_counts, clock, rl_log, nticks, mvars, cvars, svars>>

\* Line 97: self.request_counts.setdefault(client_ip, [])
RateSetDefault(t) ==
    /\ rl_pc[t] = "rl_setdefault"
    /\ request_counts' =
          IF rl_local[t].client_ip \in DOMAIN request_counts THEN request_counts
          ELSE [c \in DOMAIN request_counts \cup {rl_local[t].client_ip} |->
                  IF c \in DOMAIN request_counts THEN request_counts[c] ELSE <<>>]
    /\ rl_pc' = [rl_pc EXCEPT ![t] = "rl_prune"]
    /\ UNCHANGED <<clock, rl_local, rl_log, nticks, mvars, cvars, svars>>

\* A variant of InWindow that keeps a timestamp exactly one window old.
InWindowInclusive(ts, now) == ts >= now - Window

\* t > now - timedelta(minutes=1)
InWindow(ts, now) == ts > now - Window

\* Line 98, right-hand side: a new list built from the timestamps of the
\* client's list that are inside the window
RatePrune(t) ==
    /\ rl_pc[t] = "rl_prune"
    /\ LET c == rl_local[t].client_ip
           Keep(ts) == InWindow(ts, rl_local[t].now)
       IN rl_local' = [rl_local EXCEPT ![t].kept = SelectSeq(request_counts[c], Keep)]
    /\ rl_pc' = [rl_pc EXCEPT ![t] = "rl_store"]
    /\ UNCHANGED <<request_counts, clock, rl_log, nticks, mvars, cvars, svars>>

\* Line 98, the assignment: self.request_counts[client_ip] = <the new list>
RateStore(t) ==
    /\ rl_pc[t] = "rl_store"
    /\ request_counts' = [request_counts EXCEPT ![rl_local[t].client_ip] = rl_local[t].kept]
    /\ rl_pc' = [rl_pc EXCEPT ![t] = "rl_test"]
    /\ UNCHANGED <<clock, rl_local, rl_log, nticks, mvars, cvars, svars>>

\* RateTest with > for >=: one request too many is let through.
RateTestOffByOne(t) ==
    /\ rl_pc[t] = "rl_test"
    /\ LET c == rl_local[t].client_ip IN
       IF Len(request_counts[c]) > MAX_REQUESTS_PER_MINUTE
       THEN /\ rl_pc' = [rl_pc EXCEPT ![t] = "return False"]
            /\ rl_local' = [rl_local EXCEPT ![t] = NoCheck]
            /\ rl_log' = [rl_log EXCEPT ![c] =
                             Append(@, [at |-> rl_local[t].now, allowed |-> FALSE])]
       ELSE /\ rl_pc' = [rl_pc EXCEPT ![t] = "rl_append"]
            /\ UNCHANGED <<rl_local, rl_log>>
    /\ UNCHANGED <<request_counts, clock, nticks, mvars, cvars, svars>>

\* Lines 99-100: if len(...) >= MAX_REQUESTS_PER_MINUTE: return False
RateTest(t) ==
    /\ rl_pc[t] = "rl_test"
    /\ LET c == rl_local[t].client_ip IN
       IF Len(request_counts[c]) >= MAX_REQUESTS_PER_MINUTE
       THEN /\ rl_pc' = [rl_pc EXCEPT ![t] = "return False"]
            /\ rl_local' = [rl_local EXCEPT ![t] = NoCheck]
            /\ rl_log' = [rl_log EXCEPT ![c] =
                             Append(@, [at |-> rl_local[t].now, allowed |-> FALSE])]
       ELSE /\ rl_pc' = [rl_pc EXCEPT ![t] = "rl_append"]
            /\ UNCHANGED <<rl_local, rl_log>>
    /\ UNCHANGED <<request_counts, clock, nticks, mvars, cvars, svars>>

\* RateAppend with one list for all clients: the timestamp goes to every list.
RateAppendEveryClient(t) ==
    /\ rl_pc[t] = "rl_append"
    /\ LET c == rl_local[t].client_ip IN
       /\ request_counts' = [b \in DOMAIN request_counts |->
                                Append(request_counts[b], rl_local[t].now)]
       /\ rl_log' = [rl_log EXCEPT ![c] =
                        Append(@, [at |-> rl_local[t].now, allowed |-> TRUE])]
    /\ rl_pc' = [rl_pc EXCEPT ![t] = "return True"]
    /\ rl_local' = [rl_local EXCEPT ![t] = NoCheck]
    /\ UNCHANGED <<clock, nticks, mvars, cvars, svars>>

\* Lines 101-102: self.request_counts[client_ip].append(now); return True
RateAppend(t) ==
    /\ rl_pc[t] = "rl_append"
    /\ LET c == rl_local[t].client_ip IN
       /\ request_counts' = [request_counts EXCEPT ![c] = Append(@, rl_local[t].now)]
       /\ rl_log' = [rl_log EXCEPT ![c] =
                        Append(@, [at |-> rl_local[t].now, allowed |-> TRUE])]
    /\ rl_pc' = [rl_pc EXCEPT ![t] = "return True"]
    /\ rl_local' = [rl_local EXCEPT ![t] = NoCheck]
    /\ UNCHANGED <<clock, nticks, mvars, cvars, svars>>

\* Lines 100 and 102: the value goes back to the caller.
RateReturn(t) ==
    /\ rl_pc[t] \in {"return True", "return False"}
    /\ rl_pc' = [rl_pc EXCEPT ![t] = "idle"]
    /\ UNCHANGED <<request_counts, clock, rl_local, rl_log, nticks, mvars, cvars, svars>>

\* Time passes.
Tick(d) ==
    /\ clock' = clock + d
    /\ nticks' = nticks + 1
    /\ UNCHANGED <<request_counts, rl_pc, rl_local, rl_log, mvars, cvars, svars>>


(* -------------- _update_running_apps_cache (lines 88-93) --------------- *)
\* The call self._update_running_apps_cache(force)
CallUpdate(t, force) ==
    /\ ca_pc' = [ca_pc EXCEPT ![t] = "ca_test"]
    /\ ca_local' = [ca_local EXCEPT ![t] =
                       [NoUpdate EXCEPT !.force = force, !.before = running_apps_cache,
                                        !.stamp_before = last_cache_update]]

\* A read of the cache by a caller that only wants the snapshot: the call,
\* then the membership test of lines 159 and 224 on what the call has left.
CacheStart(t, force) ==
    /\ ca_pc[t] = "idle"
    /\ CallUpdate(t, force)
    /\ UNCHANGED <<processes, running_apps_cache, last_cache_update, ca_log, at_local,
                   mvars, rvars, svars>>

\* CacheTest with the TTL ignored: every call probes.
CacheTestAlwaysProbes(t) ==
    /\ ca_pc[t] = "ca_test"
    /\ ca_local' = [ca_local EXCEPT ![t].now = clock]
    /\ ca_pc' = [ca_pc EXCEPT ![t] = "ca_probe"]
    /\ UNCHANGED <<processes, running_apps_cache, last_cache_update, ca_log, at_local,
                   mvars, rvars, svars>>

\* Line 89: if not force and datetime.now() - self.last_cache_update < self.cache_ttl: return
CacheTest(t) ==
    /\ ca_pc[t] = "ca_test"
    /\ ca_local' = [ca_local EXCEPT ![t].now = clock]
    /\ ca_pc' = [ca_pc EXCEPT ![t] =
                    IF ~ca_local[t].force /\ clock - last_cache_update < cache_ttl
                    THEN "return" ELSE "ca_probe"]
    /\ UNCHANGED <<processes, running_apps_cache, last_cache_update, ca_log, at_local,
                   mvars, rvars, svars>>

\* CacheProbe with a failed probe that empties the snapshot.
CacheProbeFailureClears(t) ==
    /\ ca_pc[t] = "ca_probe"
    /\ \E ok \in BOOLEAN :
        IF ok
        THEN /\ running_apps_cache' = processes
             /\ ca_local' = [ca_local EXCEPT ![t].probed = "ok", ![t].probe = processes]
             /\ ca_pc' = [ca_pc EXCEPT ![t] = "ca_stamp"]
        ELSE /\ ca_local' = [ca_local EXCEPT ![t].probed = "failed"]
             /\ ca_pc' = [ca_pc EXCEPT ![t] = "return"]
             /\ running_apps_cache' = {}
    /\ UNCHANGED <<processes, last_cache_update, ca_log, at_local,
                   mvars, rvars, svars>>

\* Lines 90-91 and 93: the probe (psutil.process_iter) and the assignment of
\* the set of names it gave; when the probe raises, nothing is assigned and
\* the exception is swallowed.
CacheProbe(t) ==
    /\ ca_pc[t] = "ca_probe"
    /\ \E ok \in BOOLEAN :
        IF ok
        THEN /\ running_apps_cache' = processes
             /\ ca_local' = [ca_local EXCEPT ![t].probed = "ok", ![t].probe = processes]
             /\ ca_pc' = [ca_pc EXCEPT ![t] = "ca_stamp"]
        ELSE /\ ca_local' = [ca_local EXCEPT ![t].probed = "failed"]
             /\ ca_pc' = [ca_pc EXCEPT ![t] = "return"]
             /\ UNCHANGED running_apps_cache
    /\ UNCHANGED <<processes, last_cache_update, ca_log, at_local,
                   mvars, rvars, svars>>

\* Line 92: self.last_cache_update = datetime.now()
CacheStamp(t) ==
    /\ ca_pc[t] = "ca_stamp"
    /\ last_cache_update' = clock
    /\ ca_pc' = [ca_pc EXCEPT ![t] = "return"]
    /\ UNCHANGED <<processes, running_apps_cache, ca_local, ca_log, at_local,
                   mvars, rvars, svars>>

\* The call has returned and the caller reads self.running_apps_cache.
CacheReturn(t) ==
    /\ ca_pc[t] = "return"
    /\ ca_pc' = [ca_pc EXCEPT ![t] = "idle"]
    /\ ca_local' = [ca_local EXCEPT ![t] = NoUpdate]
    /\ ca_log' = Append(ca_log, [force |-> ca_local[t].force,
                                 now |-> ca_local[t].now,
                                 before |-> ca_local[t].before,
                                 stamp_before |-> ca_local[t].stamp_before,
                                 probed |-> ca_local[t].probed,
                                 probe |-> ca_local[t].probe,
                                 seen |-> running_apps_cache,
                                 host |-> processes,
                                 stamp_after |-> last_cache_update,
                                 end |-> clock])
    /\ UNCHANGED <<processes, running_apps_cache, last_cache_update, at_local,
                   mvars, rvars, svars>>

\* The host starts or ends processes by itself.
ProcessChange(P) ==
    /\ P # processes
    /\ processes' = P
    /\ UNCHANGED <<running_apps_cache, last_cache_update, ca_pc, ca_local, ca_log, at_local,
                   mvars, rvars, svars>>

(* ----------------------- app_toggle (lines 213-249) --------------------- *)
\* f'taskkill /F /IM "{app_config["exe"]}"' and subprocess.Popen(app_config["cmd"])
TaskKill(app) == [verb |-> "taskkill", keys |-> <<APPS[app].exe>>, dir |-> ""]
Launch(app) == [verb |-> "launch", keys |-> <<app>>, dir |-> ""]

\* Lines 216-223: an app that is not configured is answered at once; for a
\* configured one the snapshot is refreshed first (force=True).
StartAppToggle(t, app, h) ==
    /\ pc[t] = "idle"
    /\ ca_pc[t] = "idle"
    /\ hist' = h
    /\ nreq' = nreq + 1
    /\ arg' = [arg EXCEPT ![t] = app]
    /\ pre' = [pre EXCEPT ![t] = active_modifiers]
    /\ local' = [local EXCEPT ![t].handler = "app_toggle"]
    /\ at_local' = [at_local EXCEPT ![t] = NoToggle]
    /\ IF app \notin AppNames
       THEN /\ result' = [result EXCEPT ![t] =
                            [status |-> 200, success |-> FALSE,
                             message |-> "App not configured"]]
            /\ pc' = [pc EXCEPT ![t] = "done"]
            /\ UNCHANGED <<ca_pc, ca_local>>
       ELSE /\ CallUpdate(t, TRUE)
            /\ pc' = [pc EXCEPT ![t] = "at_read"]
            /\ UNCHANGED result
    /\ UNCHANGED <<active_modifier, active_modifiers, modifier_key_timer, timer_state,
                   last_key_cmd, iter, ret, sent, processes, running_apps_cache,
                   last_cache_update, ca_log, rvars, svars>>

\* AppRead with closable taken as True for every app.
AppReadIgnoresClosable(t) ==
    /\ pc[t] = "at_read"
    /\ ca_pc[t] = "return"
    /\ ca_pc' = [ca_pc EXCEPT ![t] = "idle"]
    /\ ca_local' = [ca_local EXCEPT ![t] = NoUpdate]
    /\ LET is_running == APPS[arg[t]].process_name \in running_apps_cache IN
       /\ at_local' = [at_local EXCEPT ![t].is_running = is_running]
       /\ pc' = [pc EXCEPT ![t] = IF is_running THEN "at_kill" ELSE "at_launch"]
    /\ UNCHANGED <<active_modifier, active_modifiers, modifier_key_timer, timer_state,
                   last_key_cmd, arg, local, iter, ret, sent, result, pre, nreq, hist,
                   processes, running_apps_cache, last_cache_update, ca_log, rvars, svars>>

\* Lines 224-231: is_running = process_name in self.running_apps_cache, and
\* the answer for an app that runs and cannot be closed.
AppRead(t) ==
    /\ pc[t] = "at_read"
    /\ ca_pc[t] = "return"
    /\ ca_pc' = [ca_pc EXCEPT ![t] = "idle"]
    /\ ca_local' = [ca_local EXCEPT ![t] = NoUpdate]
    /\ LET is_running == APPS[arg[t]].process_name \in running_apps_cache IN
       /\ at_local' = [at_local EXCEPT ![t].is_running = is_running]
       /\ IF is_running /\ ~APPS[arg[t]].closable
          THEN /\ result' = [result EXCEPT ![t] =
                               [status |-> 200, success |-> TRUE,
                                message |-> "cannot be close", running |-> TRUE]]
               /\ pc' = [pc EXCEPT ![t] = "done"]
          ELSE /\ pc' = [pc EXCEPT ![t] = IF is_running THEN "at_kill" ELSE "at_launch"]
               /\ UNCHANGED result
    /\ UNCHANGED <<active_modifier, active_modifiers, modifier_key_timer, timer_state,
                   last_key_cmd, arg, local, iter, ret, sent, pre, nreq, hist,
                   processes, running_apps_cache, last_cache_update, ca_log, rvars, svars>>

\* Lines 233-234: success = self._execute_command(taskkill ...).  A taskkill
\* that succeeds ends the process, which the host may start again at once.
AppKill(t) ==
    /\ pc[t] = "at_kill"
    /\ \E ok \in BOOLEAN, gone \in BOOLEAN :
        /\ sent' = SentAfter(t, TaskKill(arg[t]), ok)
        /\ local' = [local EXCEPT ![t].success = ok,
                                  ![t].message = IF ok THEN "closed." ELSE "Failed to close"]
        /\ processes' = IF ok /\ gone THEN processes \ {APPS[arg[t]].process_name}
                         ELSE processes
    /\ pc' = [pc EXCEPT ![t] = "at_sleep"]
    /\ UNCHANGED <<active_modifier, active_modifiers, modifier_key_timer, timer_state,
                   last_key_cmd, arg, iter, ret, result, pre, nreq, hist,
                   running_apps_cache, last_cache_update, ca_pc, ca_local, ca_log, at_local,
                   rvars, svars>>

\* Lines 236-242: subprocess.Popen(cmd, shell=True); success is that Popen
\* did not raise.  The app's process may be there half a second later or not.
AppLaunch(t) ==
    /\ pc[t] = "at_launch"
    /\ \E ok \in BOOLEAN, up \in BOOLEAN :
        /\ sent' = SentAfter(t, Launch(arg[t]), ok)
        /\ local' = [local EXCEPT ![t].success = ok,
                                  ![t].message = IF ok THEN "started." ELSE "Failed to start"]
        /\ processes' = IF ok /\ up THEN processes \cup {APPS[arg[t]].process_name}
                         ELSE processes
    /\ pc' = [pc EXCEPT ![t] = "at_sleep"]
    /\ UNCHANGED <<active_modifier, active_modifiers, modifier_key_timer, timer_state,
                   last_key_cmd, arg, iter, ret, result, pre, nreq, hist,
                   running_apps_cache, last_cache_update, ca_pc, ca_local, ca_log, at_local,
                   rvars, svars>>

\* Lines 243-244: time.sleep(0.5); self._update_running_apps_cache(force=True)
AppSleep(t) ==
    /\ pc[t] = "at_sleep"
    /\ ca_pc[t] = "idle"
    /\ CallUpdate(t, TRUE)
    /\ pc' = [pc EXCEPT ![t] = "at_return"]
    /\ UNCHANGED <<active_modifier, active_modifiers, modifier_key_timer, timer_state,
                   last_key_cmd, arg, local, iter, ret, sent, result, pre, nreq, hist,
                   processes, running_apps_cache, last_cache_update, ca_log, at_local,
                   rvars, svars>>

\* Lines 245-249: "running": not is_running if success else is_running
AppReturn(t) ==
    /\ pc[t] = "at_return"
    /\ ca_pc[t] = "return"
    /\ ca_pc' = [ca_pc EXCEPT ![t] = "idle"]
    /\ ca_local' = [ca_local EXCEPT ![t] = NoUpdate]
    /\ at_local' = [at_local EXCEPT ![t].seen = running_apps_cache]
    /\ result' = [result EXCEPT ![t] =
                    [status |-> 200, success |-> local[t].success,
                     message |-> local[t].message,
                     running |-> IF local[t].success THEN ~at_local[t].is_running
                                 ELSE at_local[t].is_running]]
    /\ pc' = [pc EXCEPT ![t] = "done"]
    /\ UNCHANGED <<active_modifier, active_modifiers, modifier_key_timer, timer_state,
                   last_key_cmd, arg, local, iter, ret, sent, pre, nreq, hist,
                   processes, running_apps_cache, last_cache_update, ca_log, rvars, svars>>

(* ---------------------- handle_action (lines 167-211) ------------------ *)
\* Names of the actions table: the three modifiers, two standard keys and one
\* simple command; "nope" is a name the table does not hold.
ToggleActions == [press_alt |-> "alt", press_ctrl |-> "ctrl", press_shift |-> "shift"]
KeyActions == [press_del |-> "delete", press_enter |-> "enter"]
SimpleActions == {"lock"}
ActionNames == DOMAIN ToggleActions \cup DOMAIN KeyActions \cup SimpleActions
\* self._get_mute_states(): a dict in every case (it catches what it raises)
MuteStates == [speaker_muted |-> FALSE, mic_muted |-> FALSE, is_headphone_active |-> FALSE]

\* A request for /api/action/<name> has passed before_request and
\* login_required: handle_action(name) is called.
Dispatch(t, name) ==
    /\ req[t].stage = "idle"
    /\ pc[t] = "idle"
    /\ req' = [req EXCEPT ![t] = [NoRequestYet EXCEPT !.stage = "view", !.route = "action",
                                                      !.name = name]]
    /\ UNCHANGED <<app_enabled, session, response, mvars, rvars, cvars>>

\* The request thread t is in handle_action for this name of the table.
Serving(t, names) ==
    /\ req[t].stage = "view"
    /\ req[t].route = "action"
    /\ req[t].name \in names

\* Lines 259-264: _create_simple_response(command, message)
SimpleAction(t) ==
    /\ pc[t] = "idle"
    /\ \E ok \in BOOLEAN :
        /\ sent' = SentAfter(t, [verb |-> req[t].name, keys |-> <<>>, dir |-> ""], ok)
        /\ result' = [result EXCEPT ![t] =
                        [status |-> 200, success |-> ok,
                         message |-> IF ok THEN "done" ELSE "Failed to execute"]]
    /\ pc' = [pc EXCEPT ![t] = "done"]
    /\ local' = [local EXCEPT ![t].handler = "_create_simple_response"]
    /\ pre' = [pre EXCEPT ![t] = active_modifiers]
    /\ nreq' = nreq + 1
    /\ UNCHANGED <<active_modifier, active_modifiers, modifier_key_timer, timer_state,
                   last_key_cmd, arg, iter, ret, hist, elsewhere>>

\* Line 211: the name is not in the table.
InvalidAction(t) ==
    /\ req[t].stage = "view"
    /\ req[t].route = "action"
    /\ req[t].name \notin ActionNames
    /\ response' = [response EXCEPT ![t] =
                      [status |-> 200, success |-> FALSE, message |-> "Invalid action"]]
    /\ req' = [req EXCEPT ![t].stage = "sent"]
    /\ UNCHANGED <<app_enabled, session, mvars, rvars, cvars>>

\* Lines 207-209: the handler's dict gets its "state" and is sent; when the
\* handler raised, Flask answers 500.
ActionReturn(t) ==
    /\ req[t].stage = "view"
    /\ req[t].route = "action"
    /\ pc[t] \in {"done", "error"}
    /\ response' = [response EXCEPT ![t] =
                      IF pc[t] = "error" THEN [status |-> 500]
                      ELSE [status |-> 200, success |-> result[t].success,
                            message |-> result[t].message, state |-> MuteStates]]
    /\ req' = [req EXCEPT ![t].stage = "sent"]
    /\ UNCHANGED <<app_enabled, session, mvars, rvars, cvars>>

\* The response has left: the thread takes the next request.
Finish(t) ==
    /\ req[t].stage = "sent"
    /\ pc[t] = "idle"
    /\ req' = [req EXCEPT ![t] = NoRequestYet]
    /\ response' = [response EXCEPT ![t] = NoResponse]
    /\ UNCHANGED <<app_enabled, session, mvars, rvars, cvars>>

(* ------------------ the request pipeline (lines 111-165) --------------- *)
\* The routes behind @login_required (lines 136-138, 152-154, 167-169,
\* 213-215, 251-253)
Protected == {"index", "status", "action", "app_toggle", "volume"}
Routes == Protected \cup {"login", "logout"}
\* timedelta(minutes=Config.SESSION_TIMEOUT_MINUTES), in seconds
SessionTimeout == 30 * 60

\* A request with the session cookie s arrives from client c for route r;
\* n is the action name, the app name or the login form's outcome.
Receive(t, c, s, r, n) ==
    /\ req[t].stage = "idle"
    /\ pc[t] = "idle"
    /\ req' = [req EXCEPT ![t] =
                 [stage |-> "before", client |-> c, session |-> s, route |-> r, name |-> n,
                  before |-> [session |-> session[s], counts |-> IF c \in DOMAIN request_counts
                                         THEN request_counts[c] ELSE <<>>,
                              clock |-> clock,
                              active_modifiers |-> active_modifiers,
                              modifier_key_timer |-> modifier_key_timer,
                              timer_state |-> timer_state,
                              running_apps_cache |-> running_apps_cache,
                              last_cache_update |-> last_cache_update,
                              processes |-> processes]]]
    /\ UNCHANGED <<app_enabled, session, response, mvars, rvars, cvars>>

\* A variant of BeforeEnabled that does not look at the tray's switch.
BeforeEnabledIgnoresSwitch(t) ==
    /\ req[t].stage = "before"
    /\ req' = [req EXCEPT ![t].stage = "rate"]
    /\ UNCHANGED <<app_enabled, session, response, mvars, rvars, cvars>>

\* Lines 115-116: the tray's switch
BeforeEnabled(t) ==
    /\ req[t].stage = "before"
    /\ IF ~app_enabled
       THEN /\ response' = [response EXCEPT ![t] =
                              [status |-> 503, error |-> "App is disabled from system tray"]]
            /\ req' = [req EXCEPT ![t].stage = "sent"]
       ELSE /\ req' = [req EXCEPT ![t].stage = "rate"]
            /\ UNCHANGED response
    /\ UNCHANGED <<app_enabled, session, mvars, rvars, cvars>>

\* Line 118: the call self._rate_limit_check(request.remote_addr)
BeforeRate(t) ==
    /\ req[t].stage = "rate"
    /\ RateStart(t, req[t].client)

\* A variant of BeforeLimit that lets a rejected request go on.
BeforeLimitLetsThrough(t) ==
    /\ req[t].stage = "rate"
    /\ rl_pc[t] \in {"return True", "return False"}
    /\ rl_pc' = [rl_pc EXCEPT ![t] = "idle"]
    /\ req' = [req EXCEPT ![t].stage = "session"]
    /\ UNCHANGED <<app_enabled, session, response, mvars, cvars,
                   request_counts, clock, rl_local, rl_log, nticks>>

\* Lines 118-120: the check has returned; False ends the request with 429.
BeforeLimit(t) ==
    /\ req[t].stage = "rate"
    /\ rl_pc[t] \in {"return True", "return False"}
    /\ rl_pc' = [rl_pc EXCEPT ![t] = "idle"]
    /\ IF rl_pc[t] = "return False"
       THEN /\ response' = [response EXCEPT ![t] =
                              [status |-> 429, error |-> "Rate limit exceeded"]]
            /\ req' = [req EXCEPT ![t].stage = "sent"]
       ELSE /\ req' = [req EXCEPT ![t].stage = "session"]
            /\ UNCHANGED response
    /\ UNCHANGED <<app_enabled, session, mvars, cvars,
                   request_counts, clock, rl_local, rl_log, nticks>>

\* Lines 122-126.  When the session holds both keys, line 123 reads
\* self.config.SESSION_TIMEOUT, an attribute Config does not have (it has
\* SESSION_TIMEOUT_MINUTES, line 34): AttributeError, which Flask answers
\* with 500.  Otherwise nothing is done.
BeforeSession(t) ==
    /\ req[t].stage = "session"
    /\ IF session[req[t].session].logged_in
          /\ session[req[t].session].last_activity # Absent
       THEN /\ response' = [response EXCEPT ![t] = [status |-> 500]]
            /\ req' = [req EXCEPT ![t].stage = "sent"]
       ELSE /\ req' = [req EXCEPT ![t].stage = "route"]
            /\ UNCHANGED response
    /\ UNCHANGED <<app_enabled, session, mvars, rvars, cvars>>

\* Lines 140-145: login(); the name says whether the form holds the
\* configured user name and password.
Login(t) ==
    /\ req[t].stage = "route"
    /\ req[t].route = "login"
    /\ IF req[t].name = "good"
       THEN /\ session' = [session EXCEPT ![req[t].session].logged_in = TRUE]
            /\ response' = [response EXCEPT ![t] = [status |-> 302, location |-> "index"]]
       ELSE /\ response' = [response EXCEPT ![t] = [status |-> 200, page |-> "login.html"]]
            /\ UNCHANGED session
    /\ req' = [req EXCEPT ![t].stage = "sent"]
    /\ UNCHANGED <<app_enabled, mvars, rvars, cvars>>

\* Lines 147-150: logout()
Logout(t) ==
    /\ req[t].stage = "route"
    /\ req[t].route = "logout"
    /\ session' = [session EXCEPT ![req[t].session] = NoSession]
    /\ response' = [response EXCEPT ![t] = [status |-> 302, location |-> "login"]]
    /\ req' = [req EXCEPT ![t].stage = "sent"]
    /\ UNCHANGED <<app_enabled, mvars, rvars, cvars>>

\* A variant of LoginRequired that calls the view whatever the session holds.
LoginRequiredLetsThrough(t) ==
    /\ req[t].stage = "route"
    /\ req[t].route \in Protected
    /\ req' = [req EXCEPT ![t].stage = "view"]
    /\ UNCHANGED <<app_enabled, session, response, mvars, rvars, cvars>>

\* Lines 128-134: login_required
LoginRequired(t) ==
    /\ req[t].stage = "route"
    /\ req[t].route \in Protected
    /\ IF ~session[req[t].session].logged_in
       THEN /\ response' = [response EXCEPT ![t] = [status |-> 302, location |-> "login"]]
            /\ req' = [req EXCEPT ![t].stage = "sent"]
       ELSE /\ req' = [req EXCEPT ![t].stage = "view"]
            /\ UNCHANGED response
    /\ UNCHANGED <<app_enabled, session, mvars, rvars, cvars>>

\* Lines 136-138: index()
Index(t) ==
    /\ req[t].stage = "view"
    /\ req[t].route = "index"
    /\ response' = [response EXCEPT ![t] = [status |-> 200, page |-> "index.html"]]
    /\ req' = [req EXCEPT ![t].stage = "sent"]
    /\ UNCHANGED <<app_enabled, session, mvars, rvars, cvars>>

\* Lines 251-254 and 364-375: set_volume() answers what _set_volume returns,
\* which catches what the audio interface raises.
SetVolume(t) ==
    /\ req[t].stage = "view"
    /\ req[t].route = "volume"
    /\ \E ok \in BOOLEAN :
         response' = [response EXCEPT ![t] = [status |-> 200, success |-> ok, volume |-> TRUE]]
    /\ req' = [req EXCEPT ![t].stage = "sent"]
    /\ UNCHANGED <<app_enabled, session, mvars, rvars, cvars>>

\* Line 155: get_all_status() forces a refresh of the snapshot
StatusStart(t) ==
    /\ req[t].stage = "view"
    /\ req[t].route = "status"
    /\ ca_pc[t] = "idle"
    /\ CallUpdate(t, TRUE)
    /\ req' = [req EXCEPT ![t].stage = "status"]
    /\ UNCHANGED <<processes, running_apps_cache, last_cache_update, ca_log, at_local,
                   app_enabled, session, response, mvars, rvars>>

\* Lines 156-165: the answer is read from the snapshot
StatusReturn(t) ==
    /\ req[t].stage = "status"
    /\ ca_pc[t] = "return"
    /\ ca_pc' = [ca_pc EXCEPT ![t] = "idle"]
    /\ response' = [response EXCEPT ![t] =
                      [status |-> 200,
                       apps |-> [a \in AppNames |-> APPS[a].process_name \in running_apps_cache],
                       muted_state |-> MuteStates]]
    /\ req' = [req EXCEPT ![t].stage = "sent"]
    /\ UNCHANGED <<processes, running_apps_cache, last_cache_update, ca_local, ca_log,
                   at_local, app_enabled, session, mvars, rvars>>

\* Line 249 (and 217, 231): app_toggle's dict is sent; when it raised, Flask
\* answers 500.
AppToggleReturn(t) ==
    /\ req[t].stage = "view"
    /\ req[t].route = "app_toggle"
    /\ pc[t] \in {"done", "error"}
    /\ response' = [response EXCEPT ![t] =
                      IF pc[t] = "error" THEN [status |-> 500]
                      ELSE [status |-> 200, success |-> result[t].success,
                            message |-> result[t].message]]
    /\ req' = [req EXCEPT ![t].stage = "sent"]
    /\ UNCHANGED <<app_enabled, session, mvars, rvars, cvars>>

\* Lines 459-462: the tray's menu item
ToggleAppEnabled ==
    /\ app_enabled' = ~app_enabled
    /\ UNCHANGED <<session, req, response, mvars, rvars, cvars>>

(* --------------------------- specifications ---------------------------- *)
\* No handler and no timer callback is under way.
Quiet == (\A t \in Threads : pc[t] = "idle") /\ (\A i \in TimerIds : pc[i] = "off")
\* No request handler is under way.
NoRequest == \A t \in Threads : pc[t] = "idle"

Op(name, a) == [op |-> name, arg |-> a]

\* The server as it runs (run_flask: threaded=True): handlers on concurrent
\* threads, each timer's callback on a thread of its own.
Next ==
    \/ \E t \in Threads, m \in Modifiers : nreq < MaxConcurrent /\ StartToggle(t, m, hist)
    \/ \E t \in Threads, k \in Keys : nreq < MaxConcurrent /\ StartKeyPress(t, k, hist)
    \/ \E t \in Threads : ToggleCheck(t)
    \/ \E t \in Threads : ToggleCancel(t)
    \/ \E t \in Threads : ToggleTest(t)
    \/ \E t \in Threads : ToggleRemove(t)
    \/ \E t \in Threads : ToggleAdd(t)
    \/ \E t \in Threads : ToggleExecute(t)
    \/ \E t \in Threads : ToggleNonEmpty(t)
    \/ \E t \in Threads : ToggleNewTimer(t)
    \/ \E t \in Threads : ToggleStart(t)
    \/ \E t \in Threads : ToggleReturn(t)
    \/ \E t \in Threads : KeySleep(t)
    \/ \E t \in Threads : KeyTest(t)
    \/ \E t \in Threads : KeyExecute(t)
    \/ \E t \in Threads : KeyReturn(t)
    \/ \E t \in Threads : Respond(t)
    \/ \E p \in Procs : ClearLoop(p)
    \/ \E p \in Procs : ClearCheck(p)
    \/ \E p \in Procs : ClearCancel(p)
    \/ \E p \in Procs : ClearSet(p)
    \/ \E p \in Procs : ClearNone(p)
    \/ \E i \in TimerIds : TimerFire(i, hist)
    \/ \E i \in TimerIds : TimerExit(i)

Spec == Init /\ [][Next]_vars

\* One client that sends its requests one after another: no two handlers
\* overlap, while the timers' callbacks run on their own threads as before.
TimerNext ==
    \/ \E t \in Threads, m \in Modifiers :
          NoRequest /\ nreq < MaxRequests /\ StartToggle(t, m, hist)
    \/ \E t \in Threads, k \in Keys :
          NoRequest /\ nreq < MaxRequests /\ StartKeyPress(t, k, hist)
    \/ \E t \in Threads : ToggleCheck(t)
    \/ \E t \in Threads : ToggleCancel(t)
    \/ \E t \in Threads : ToggleTest(t)
    \/ \E t \in Threads : ToggleRemove(t)
    \/ \E t \in Threads : ToggleAdd(t)
    \/ \E t \in Threads : ToggleExecute(t)
    \/ \E t \in Threads : ToggleNonEmpty(t)
    \/ \E t \in Threads : ToggleNewTimer(t)
    \/ \E t \in Threads : ToggleStart(t)
    \/ \E t \in Threads : ToggleReturn(t)
    \/ \E t \in Threads : KeySleep(t)
    \/ \E t \in Threads : KeyTest(t)
    \/ \E t \in Threads : KeyExecute(t)
    \/ \E t \in Threads : KeyReturn(t)
    \/ \E t \in Threads : Respond(t)
    \/ \E p \in Procs : ClearLoop(p)
    \/ \E p \in Procs : ClearCheck(p)
    \/ \E p \in Procs : ClearCancel(p)
    \/ \E p \in Procs : ClearSet(p)
    \/ \E p \in Procs : ClearNone(p)
    \/ \E i \in TimerIds : TimerFire(i, hist)
    \/ \E i \in TimerIds : TimerExit(i)

TimerSpec == Init /\ [][TimerNext]_vars

\* Operations run one after another, each to its end: a request starts, and a
\* timer fires, only when nothing else is under way.  hist records them.
SeqNext ==
    \/ \E t \in Threads, m \in Modifiers :
          /\ Quiet /\ nreq < MaxRequests
          /\ StartToggle(t, m, Append(hist, Op("toggle", m)))
    \/ \E t \in Threads, k \in Keys :
          /\ Quiet /\ nreq < MaxRequests
          /\ StartKeyPress(t, k, Append(hist, Op("key", k)))
    \/ \E t \in Threads : ToggleCheck(t)
    \/ \E t \in Threads : ToggleCancel(t)
    \/ \E t \in Threads : ToggleTest(t)
    \/ \E t \in Threads : ToggleRemove(t)
    \/ \E t \in Threads : ToggleAdd(t)
    \/ \E t \in Threads : ToggleExecute(t)
    \/ \E t \in Threads : ToggleNonEmpty(t)
    \/ \E t \in Threads : ToggleNewTimer(t)
    \/ \E t \in Threads : ToggleStart(t)
    \/ \E t \in Threads : ToggleReturn(t)
    \/ \E t \in Threads : KeySleep(t)
    \/ \E t \in Threads : KeyTest(t)
    \/ \E t \in Threads : KeyExecute(t)
    \/ \E t \in Threads : KeyReturn(t)
    \/ \E t \in Threads : Respond(t)
    \/ \E p \in Procs : ClearLoop(p)
    \/ \E p \in Procs : ClearCheck(p)
    \/ \E p \in Procs : ClearCancel(p)
    \/ \E p \in Procs : ClearSet(p)
    \/ \E p \in Procs : ClearNone(p)
    \/ \E i \in TimerIds : Quiet /\ TimerFire(i, Append(hist, Op("fire", "")))
    \/ \E i \in TimerIds : TimerExit(i)

SeqSpec == Init /\ [][SeqNext]_vars

\* SeqSpec's operations, and force_clear() among them.
ClearNext ==
    \/ \E t \in Threads, m \in Modifiers :
          /\ Quiet /\ nreq < MaxRequests
          /\ StartToggle(t, m, Append(hist, Op("toggle", m)))
    \/ \E t \in Threads, k \in Keys :
          /\ Quiet /\ nreq < MaxRequests
          /\ StartKeyPress(t, k, Append(hist, Op("key", k)))
    \/ \E t \in Threads :
          /\ Quiet /\ nreq < MaxRequests
          /\ CallClear(t, Append(hist, Op("clear", "")))
    \/ \E t \in Threads : ToggleCheck(t)
    \/ \E t \in Threads : ToggleCancel(t)
    \/ \E t \in Threads : ToggleTest(t)
    \/ \E t \in Threads : ToggleRemove(t)
    \/ \E t \in Threads : ToggleAdd(t)
    \/ \E t \in Threads : ToggleExecute(t)
    \/ \E t \in Threads : ToggleNonEmpty(t)
    \/ \E t \in Threads : ToggleNewTimer(t)
    \/ \E t \in Threads : ToggleStart(t)
    \/ \E t \in Threads : ToggleReturn(t)
    \/ \E t \in Threads : KeySleep(t)
    \/ \E t \in Threads : KeyTest(t)
    \/ \E t \in Threads : KeyExecute(t)
    \/ \E t \in Threads : KeyReturn(t)
    \/ \E t \in Threads : Respond(t)
    \/ \E p \in Procs : ClearLoop(p)
    \/ \E p \in Procs : ClearCheck(p)
    \/ \E p \in Procs : ClearCancel(p)
    \/ \E p \in Procs : ClearSet(p)
    \/ \E p \in Procs : ClearNone(p)
    \/ \E i \in TimerIds : Quiet /\ TimerFire(i, Append(hist, Op("fire", "")))
    \/ \E i \in TimerIds : TimerExit(i)

ClearSpec == Init /\ [][ClearNext]_vars

(* ------------------------------- claims -------------------------------- *)
\* A timer that is scheduled, not cancelled and has not fired.
LiveTimers == {i \in TimerIds : timer_state[i] = "waiting"}
\* Nothing is under way and nothing is scheduled: without a new request the
\* state stays as it is for ever.
Stopped ==
    /\ NoRequest
    /\ \A i \in TimerIds : timer_state[i] \notin {"waiting", "cancelled", "running"}
\* The handler on thread t has returned its dict.
Returned(t, handler) == pc[t] = "done" /\ local[t].handler = handler
\* The commands of a handler's invocation, without their outcomes.
Commands(t) == [i \in 1..Len(sent[t]) |-> sent[t][i].cmd]
RECURSIVE KeyPresses(_)
KeyPresses(cmds) ==
    IF cmds = <<>> THEN <<>>
    ELSE (IF Head(cmds).verb = "sendkeypress" THEN <<Head(cmds)>> ELSE <<>>)
         \o KeyPresses(Tail(cmds))

\* C1: a standard key press that starts with a non-empty modifier set S (so
\* before the auto-release timer has fired) sends exactly one key-press
\* command, the combination of every modifier of S with the key, and leaves
\* the set empty with no live timer.
C1_CombinedKeyPress ==
    \A t \in Threads :
        (Returned(t, "_handle_standard_key_press") /\ pre[t] # {}) =>
            /\ KeyPresses(Commands(t)) = <<SendKeyPress(List(pre[t]), arg[t])>>
            /\ active_modifiers = {}
            /\ LiveTimers = {}

\* C2: once a toggle has left the set non-empty and no further request
\* arrives, the timer fires, every held modifier gets its key-up and the
\* set becomes empty: whenever nothing is under way or scheduled any more,
\* the set is empty.
C2_AutoReleaseEmptiesSet == Stopped => active_modifiers = {}

\* C3: at most one auto-release timer is live in every reachable state.
C3_AtMostOneLiveTimer == Cardinality(LiveTimers) <= 1

\* C4: two toggles of the same modifier that both started on the empty set
\* leave, once both have returned and no callback is under way, what a serial
\* execution of the two leaves: the modifier released, the set empty and no
\* live timer, or (the first call's timer fired in between) the modifier
\* pressed, alone in the set, with one live timer.
C4_TwoTogglesSerializable ==
    \A t1, t2 \in Threads :
        (/\ t1 # t2
         /\ Returned(t1, "_handle_modifier_press")
         /\ Returned(t2, "_handle_modifier_press")
         /\ arg[t1] = arg[t2]
         /\ pre[t1] = {} /\ pre[t2] = {}
         /\ \A i \in TimerIds : pc[i] = "off") =>
            \/ /\ active_modifiers = {}
               /\ last_key_cmd[arg[t1]] = "up"
               /\ LiveTimers = {}
            \/ /\ active_modifiers = {arg[t1]}
               /\ last_key_cmd[arg[t1]] = "down"
               /\ Cardinality(LiveTimers) = 1

\* C5: no modifier stays held down for ever: whenever nothing is under way
\* or scheduled any more, the latest key command of every modifier that was
\* ever pressed is its key-up.
C5_NoModifierStuckDown == Stopped => \A m \in Modifiers : last_key_cmd[m] # "down"

\* C6: whenever no toggle, key press or clear is under way, the modifier set
\* is non-empty if and only if a live auto-release timer exists.
C6_NonEmptyIffLiveTimer == Quiet => (active_modifiers # {} <=> LiveTimers # {})

\* The modifiers an odd number of the toggles of h name.
ToggledOdd(h) ==
    {m \in Modifiers : Cardinality({i \in 1..Len(h) : h[i].arg = m}) % 2 = 1}
OnlyToggles(h) == \A i \in 1..Len(h) : h[i].op = "toggle"
Distinct(h) == \A i, j \in 1..Len(h) : h[i].arg = h[j].arg => i = j

\* C7: from the empty set, after toggles run one after another with no timer
\* firing in between: N toggles of N distinct modifiers leave exactly those
\* N in the set, and a toggle that repeats the one before it leaves the set
\* as it was before the two.
C7_ToggleAlgebra ==
    (Quiet /\ OnlyToggles(hist)) =>
        /\ Distinct(hist) =>
              /\ Cardinality(active_modifiers) = Len(hist)
              /\ active_modifiers = {hist[i].arg : i \in 1..Len(hist)}
        /\ (Len(hist) >= 2 /\ hist[Len(hist)].arg = hist[Len(hist) - 1].arg) =>
              active_modifiers = ToggledOdd(SubSeq(hist, 1, Len(hist) - 2))

\* C7's case: three distinct modifiers toggled in a row, all three held.
C7_Witness ==
    /\ Quiet /\ OnlyToggles(hist) /\ Distinct(hist) /\ Len(hist) = 3
    /\ Cardinality(active_modifiers) = 3

\* C8: force_clear() never raises and always leaves the set empty with no
\* timer, live or referenced; the commands it issues are the key-ups of the
\* modifiers held when it was called, whatever their outcome: none on the
\* empty set, so that a call right after another changes nothing.
C8_ForceClearIdempotent ==
    \A t \in Threads :
        local[t].handler = "_clear_modifier_state" =>
            /\ pc[t] # "error"
            /\ pc[t] = "done" =>
                  /\ active_modifiers = {}
                  /\ modifier_key_timer = None
                  /\ LiveTimers = {}
                  /\ Commands(t) = [i \in 1..Cardinality(pre[t]) |->
                                        SendKey(List(pre[t])[i], "up")]
                  /\ (Len(hist) >= 2 /\ hist[Len(hist) - 1].op = "clear") =>
                        (pre[t] = {} /\ sent[t] = <<>>)

\* C8's case: a toggle, then two calls of force_clear() in a row; the second,
\* called on the set the first emptied, has returned.
C8_Witness ==
    \E t \in Threads :
        /\ Returned(t, "_clear_modifier_state")
        /\ Len(hist) = 3 /\ hist[1].op = "toggle"
        /\ hist[2].op = "clear" /\ hist[3].op = "clear"
        /\ pre[t] = {} /\ sent[t] = <<>>
        /\ active_modifiers = {} /\ modifier_key_timer = None

\* C9: a toggle whose key command fails updates the set and the timer as if
\* it had succeeded, and its result's success is the command's outcome.
C9_ToggleReportsFailure ==
    \A t \in Threads :
        Returned(t, "_handle_modifier_press") =>
            /\ Len(sent[t]) = 1
            /\ result[t].success = sent[t][1].ok
            /\ active_modifiers =
                  (IF arg[t] \in pre[t] THEN pre[t] \ {arg[t]} ELSE pre[t] \cup {arg[t]})
            /\ active_modifiers # {} <=> LiveTimers # {}

\* The rate limiter under requests that arrive one after another: a check
\* starts when no other is under way.  Each client makes at most
\* MAX_REQUESTS_PER_MINUTE + 2 checks.
RateNext ==
    \/ \E t \in Threads, c \in Clients :
          /\ \A u \in Threads : rl_pc[u] = "idle"
          /\ Len(rl_log[c]) < MAX_REQUESTS_PER_MINUTE + 2
          /\ RateStart(t, c)
    \/ \E t \in Threads : RateSetDefault(t)
    \/ \E t \in Threads : RatePrune(t)
    \/ \E t \in Threads : RateStore(t)
    \/ \E t \in Threads : RateTest(t)
    \/ \E t \in Threads : RateAppend(t)
    \/ \E t \in Threads : RateReturn(t)
    \/ \E d \in Delays : nticks < MaxTicks /\ Tick(d)

RateSpec == Init /\ [][RateNext]_vars

\* The first MAX_REQUESTS_PER_MINUTE + 1 checks of client c came within less
\* than the window.
Burst(c) ==
    /\ Len(rl_log[c]) >= MAX_REQUESTS_PER_MINUTE + 1
    /\ rl_log[c][MAX_REQUESTS_PER_MINUTE + 1].at - rl_log[c][1].at < Window

\* C10: of MAX_REQUESTS_PER_MINUTE + 1 checks a client makes from an empty
\* log within less than the window, the first MAX_REQUESTS_PER_MINUTE are
\* allowed and the last is rejected; its next check, made once the window
\* has passed since them, is allowed.
C10_BurstThenWindow ==
    \A c \in Clients :
        Burst(c) =>
            /\ \A i \in 1..MAX_REQUESTS_PER_MINUTE : rl_log[c][i].allowed
            /\ ~rl_log[c][MAX_REQUESTS_PER_MINUTE + 1].allowed
            /\ (/\ Len(rl_log[c]) >= MAX_REQUESTS_PER_MINUTE + 2
                /\ rl_log[c][MAX_REQUESTS_PER_MINUTE + 2].at
                      - rl_log[c][MAX_REQUESTS_PER_MINUTE + 1].at >= Window) =>
                  rl_log[c][MAX_REQUESTS_PER_MINUTE + 2].allowed

\* C10's case: a client's burst, then its next check exactly one window
\* after the rejected one.
C10_Witness ==
    \E c \in Clients :
        /\ Burst(c)
        /\ Len(rl_log[c]) = MAX_REQUESTS_PER_MINUTE + 2
        /\ rl_log[c][MAX_REQUESTS_PER_MINUTE + 2].at
              - rl_log[c][MAX_REQUESTS_PER_MINUTE + 1].at = Window
        /\ rl_log[c][MAX_REQUESTS_PER_MINUTE + 2].allowed

\* The rate limiter as the threaded server runs it: the checks of concurrent
\* requests interleave, for the same client or for different ones.  At most MAX_REQUESTS_PER_MINUTE + 1 checks are made in all.
InFlight(c) == {t \in Threads : rl_local[t].client_ip = c}
RECURSIVE StartedChecks(_)
StartedChecks(C) ==
    IF C = {} THEN 0
    ELSE LET c == CHOOSE x \in C : TRUE
         IN Len(rl_log[c]) + Cardinality(InFlight(c)) + StartedChecks(C \ {c})
RaceNext ==
    \/ \E t \in Threads, c \in Clients :
          /\ StartedChecks(Clients) < MAX_REQUESTS_PER_MINUTE + 1
          /\ RateStart(t, c)
    \/ \E t \in Threads : RateSetDefault(t)
    \/ \E t \in Threads : RatePrune(t)
    \/ \E t \in Threads : RateStore(t)
    \/ \E t \in Threads : RateTest(t)
    \/ \E t \in Threads : RateAppend(t)
    \/ \E t \in Threads : RateReturn(t)
    \/ \E d \in Delays : nticks < MaxTicks /\ Tick(d)

RaceSpec == Init /\ [][RaceNext]_vars

\* The checks of client c that were allowed, and how often a time occurs in
\* a list of timestamps.
AllowedChecks(c) == {i \in 1..Len(rl_log[c]) : rl_log[c][i].allowed}
Occurrences(ts, list) == Cardinality({j \in 1..Len(list) : list[j] = ts})

\* C11: under concurrent checks of the same client no update is lost and none
\* is counted twice: no window of 60 seconds holds more than
\* MAX_REQUESTS_PER_MINUTE allowed checks, and whenever no check of the client
\* is under way every allowed check still inside the window has its timestamp
\* in the client's list, once.
C11_NoLostNoExtraUpdate ==
    \A c \in Clients :
        /\ \A i \in AllowedChecks(c) :
              Cardinality({j \in AllowedChecks(c) :
                              /\ rl_log[c][j].at >= rl_log[c][i].at
                              /\ rl_log[c][j].at < rl_log[c][i].at + Window})
                 <= MAX_REQUESTS_PER_MINUTE
        /\ InFlight(c) = {} =>
              \A i \in AllowedChecks(c) :
                  InWindow(rl_log[c][i].at, clock) =>
                      /\ c \in DOMAIN request_counts
                      /\ Occurrences(rl_log[c][i].at, request_counts[c]) =
                            Cardinality({j \in AllowedChecks(c) :
                                            rl_log[c][j].at = rl_log[c][i].at})

\* Concurrent requests of different clients: a client's own checks come one
\* after another, while those of another client interleave with them.  At
\* most MAX_REQUESTS_PER_MINUTE + 2 checks are made in all.
ClientNext ==
    \/ \E t \in Threads, c \in Clients :
          /\ InFlight(c) = {}
          /\ StartedChecks(Clients) < MAX_REQUESTS_PER_MINUTE + 2
          /\ RateStart(t, c)
    \/ \E t \in Threads : RateSetDefault(t)
    \/ \E t \in Threads : RatePrune(t)
    \/ \E t \in Threads : RateStore(t)
    \/ \E t \in Threads : RateTest(t)
    \/ \E t \in Threads : RateAppend(t)
    \/ \E t \in Threads : RateReturn(t)
    \/ \E d \in Delays : nticks < MaxTicks /\ Tick(d)

ClientSpec == Init /\ [][ClientNext]_vars

\* The list self.request_counts holds for client b, if any.
ListOf(counts, b) == IF b \in DOMAIN counts THEN counts[b] ELSE <<>>
\* What b's own earlier checks and the time of day say a check is to answer.
WithinBudget(log, now) ==
    Cardinality({i \in 1..Len(log) : log[i].allowed /\ InWindow(log[i].at, now)})
        < MAX_REQUESTS_PER_MINUTE

\* C12: rate limiting is per client.  A step of a check for client a leaves
\* every other client's list and log as they were, and the answer a check for
\* b gets is the one b's own earlier checks and the time of day determine.
C12_PerClientIndependence ==
    [][\A t \in Threads :
          rl_pc'[t] # rl_pc[t] =>
              LET a == IF rl_local[t].client_ip # "" THEN rl_local[t].client_ip
                       ELSE rl_local'[t].client_ip
              IN /\ \A b \in Clients \ {a} :
                       /\ (b \in DOMAIN request_counts') <=> (b \in DOMAIN request_counts)
                       /\ ListOf(request_counts', b) = ListOf(request_counts, b)
                       /\ rl_log'[b] = rl_log[b]
                 /\ (a # "" /\ rl_log'[a] # rl_log[a]) =>
                       /\ Len(rl_log'[a]) = Len(rl_log[a]) + 1
                       /\ rl_log'[a][Len(rl_log'[a])].allowed =
                             WithinBudget(rl_log[a], rl_log'[a][Len(rl_log'[a])].at)]_vars

\* C12's case: client b is allowed a request at a time of day at which
\* client a, its budget used up, has been rejected.
C12_Witness ==
    \E a, b \in Clients :
        /\ a # b
        /\ \E i \in 1..Len(rl_log[a]), j \in 1..Len(rl_log[b]) :
              /\ ~rl_log[a][i].allowed
              /\ rl_log[b][j].allowed
              /\ rl_log[b][j].at = rl_log[a][i].at
              /\ Len(request_counts[a]) = MAX_REQUESTS_PER_MINUTE

\* The process presence cache read by one caller after another, forced or
\* not, while time passes and the host's processes come and go.  The reads
\* run on one worker thread.  The host's process set changes between two
\* reads: the probe takes the set at one instant, so a change during a read
\* is a change before it or after it.  Time passes between two reads and
\* between lines 91 and 92; elsewhere in a read it passes to the same effect.
Worker == CHOOSE t \in Threads : \A u \in Threads : t <= u
\* The process that comes and goes while the cache is read.
Watched == {APPS["npp"].process_name}
CacheNext ==
    \/ \E force \in BOOLEAN :
          /\ \A u \in Threads : ca_pc[u] = "idle"
          /\ Len(ca_log) < MaxRequests
          /\ CacheStart(Worker, force)
    \/ \E t \in Threads : CacheTest(t)
    \/ \E t \in Threads : CacheProbe(t)
    \/ \E t \in Threads : CacheStamp(t)
    \/ \E t \in Threads : CacheReturn(t)
    \/ \E P \in SUBSET Watched :
          /\ \A u \in Threads : ca_pc[u] = "idle"
          /\ ProcessChange(P)
    \/ \E d \in Delays :
          /\ \A u \in Threads : ca_pc[u] \in {"idle", "ca_stamp"}
          /\ nticks < MaxTicks
          /\ Tick(d)

CacheSpec == Init /\ [][CacheNext]_vars

\* The read found the snapshot younger than the TTL.
Fresh(e) == e.now - e.stamp_before < cache_ttl

\* C16: a non-forced read of a snapshot younger than the TTL makes no probe
\* and answers from the snapshot as it was, so that two such reads in a row
\* answer alike whatever the host's processes did in between; a non-forced
\* read of a snapshot as old as the TTL or older probes; a forced read always
\* probes, and when its probe succeeds the snapshot is the probe's result and
\* last_cache_update is the time of that refresh.
C16_CacheStaleness ==
    \A i \in 1..Len(ca_log) :
        LET e == ca_log[i] IN
        /\ (~e.force /\ Fresh(e)) =>
              /\ e.probed = ""
              /\ e.seen = e.before
              /\ e.stamp_after = e.stamp_before
              /\ (i > 1 /\ ~ca_log[i - 1].force /\ Fresh(ca_log[i - 1])) =>
                    e.seen = ca_log[i - 1].seen
        /\ (~e.force /\ ~Fresh(e)) => e.probed # ""
        /\ e.force => e.probed # ""
        /\ e.probed = "ok" =>
              /\ e.seen = e.probe
              /\ e.stamp_after >= e.now
              /\ e.stamp_after <= e.end

\* C16's case: two non-forced reads in a row of a snapshot younger than the
\* TTL, between which the host's process set changed, and before them a
\* forced read whose probe succeeded.
C16_Witness ==
    /\ Len(ca_log) = 3
    /\ ca_log[1].force /\ ca_log[1].probed = "ok" /\ ca_log[1].seen # {}
    /\ ~ca_log[2].force /\ Fresh(ca_log[2])
    /\ ~ca_log[3].force /\ Fresh(ca_log[3])
    /\ ca_log[2].host # ca_log[3].host
    /\ ca_log[3].seen = ca_log[2].seen

\* C17: a refresh whose probe fails returns to its caller, with the snapshot
\* and last_cache_update as they were before the call, and the caller reads
\* that snapshot.
C17_ProbeFailureKeepsSnapshot ==
    /\ \A t \in Threads : ca_pc[t] \in {"idle", "ca_test", "ca_probe", "ca_stamp", "return"}
    /\ \A t \in Threads :
          (ca_pc[t] = "return" /\ ca_local[t].probed = "failed") =>
              /\ running_apps_cache = ca_local[t].before
              /\ last_cache_update = ca_local[t].stamp_before
    /\ \A i \in 1..Len(ca_log) :
          ca_log[i].probed = "failed" =>
              /\ ca_log[i].seen = ca_log[i].before
              /\ ca_log[i].stamp_after = ca_log[i].stamp_before

\* C17's case: a forced refresh and a refresh of an aged snapshot, each with
\* a failed probe, on a non-empty snapshot that the host's processes no
\* longer match.
C17_Witness ==
    \E i, j \in 1..Len(ca_log) :
        /\ ca_log[i].probed = "failed" /\ ca_log[i].force
        /\ ca_log[j].probed = "failed" /\ ~ca_log[j].force
        /\ ca_log[i].before # {} /\ ca_log[i].host # ca_log[i].before
        /\ ca_log[i].seen = ca_log[i].before

\* App toggles requested one after another, while the host's processes come
\* and go at any moment.
AppRequests == AppNames \cup {"paint"}
AppNext ==
    \/ \E t \in Threads, app \in AppRequests :
          NoRequest /\ nreq < MaxRequests /\ StartAppToggle(t, app, hist)
    \/ \E t \in Threads : CacheTest(t)
    \/ \E t \in Threads : CacheProbe(t)
    \/ \E t \in Threads : CacheStamp(t)
    \/ \E t \in Threads : AppRead(t)
    \/ \E t \in Threads : AppKill(t)
    \/ \E t \in Threads : AppLaunch(t)
    \/ \E t \in Threads : AppSleep(t)
    \/ \E t \in Threads : AppReturn(t)
    \/ \E t \in Threads : Respond(t)
    \/ \E P \in SUBSET ProcessNames : ProcessChange(P)

AppSpec == Init /\ [][AppNext]_vars

\* C18: when the snapshot the forced refresh left says that an app which
\* cannot be closed runs, app toggle answers success and running at once: it
\* has issued no command and issues none, and the step changes neither the
\* snapshot, nor the host's processes, nor the modifier state, the rate
\* limiter's lists or the sessions.
C18_NonClosableRunning ==
    [][\A t \in Threads :
          (/\ pc[t] = "at_read" /\ pc'[t] # "at_read"
           /\ APPS[arg[t]].process_name \in running_apps_cache
           /\ ~APPS[arg[t]].closable) =>
              /\ pc'[t] = "done"
              /\ result'[t].success /\ result'[t].running
              /\ sent[t] = <<>> /\ sent'[t] = <<>>
              /\ UNCHANGED <<processes, running_apps_cache, last_cache_update,
                             active_modifiers, modifier_key_timer, timer_state,
                             last_key_cmd, request_counts, session>>]_vars

\* C18's case: the toggle of the task manager, which runs, has answered.
C18_Witness ==
    \E t \in Threads :
        /\ Returned(t, "app_toggle") /\ arg[t] = "task_manager"
        /\ at_local[t].is_running
        /\ result[t].success /\ result[t].running
        /\ sent[t] = <<>>

\* C19: the toggle of a configured app that can be closed or does not run
\* issues one command, the terminate when the app ran and the launch when it
\* did not, and the running flag of its answer is the app's presence in the
\* snapshot refreshed after the command.
C19_ToggleReportsResultingState ==
    \A t \in Threads :
        (/\ Returned(t, "app_toggle") /\ arg[t] \in AppNames
         /\ ~(at_local[t].is_running /\ ~APPS[arg[t]].closable)) =>
            /\ Commands(t) = <<IF at_local[t].is_running THEN TaskKill(arg[t])
                                ELSE Launch(arg[t])>>
            /\ result[t].running = (APPS[arg[t]].process_name \in at_local[t].seen)

\* The dispatcher behind one client that sends its requests one after
\* another, while the timers' callbacks run on their own threads.
DispatchNames == ActionNames \cup {"nope"}
DispatchNext ==
    \/ \E t \in Threads, name \in DispatchNames :
          /\ \A u \in Threads : req[u].stage = "idle"
          /\ nreq < MaxRequests
          /\ Dispatch(t, name)
    \/ \E t \in Threads :
          /\ Serving(t, DOMAIN ToggleActions)
          /\ StartToggle(t, ToggleActions[req[t].name], hist)
    \/ \E t \in Threads :
          /\ Serving(t, DOMAIN KeyActions)
          /\ StartKeyPress(t, KeyActions[req[t].name], hist)
    \/ \E t \in Threads : Serving(t, SimpleActions) /\ SimpleAction(t)
    \/ \E t \in Threads : InvalidAction(t)
    \/ \E t \in Threads : ActionReturn(t)
    \/ \E t \in Threads : req[t].stage = "sent" /\ Respond(t)
    \/ \E t \in Threads : Finish(t)
    \/ \E t \in Threads : ToggleCheck(t)
    \/ \E t \in Threads : ToggleCancel(t)
    \/ \E t \in Threads : ToggleTest(t)
    \/ \E t \in Threads : ToggleRemove(t)
    \/ \E t \in Threads : ToggleAdd(t)
    \/ \E t \in Threads : ToggleExecute(t)
    \/ \E t \in Threads : ToggleNonEmpty(t)
    \/ \E t \in Threads : ToggleNewTimer(t)
    \/ \E t \in Threads : ToggleStart(t)
    \/ \E t \in Threads : ToggleReturn(t)
    \/ \E t \in Threads : KeySleep(t)
    \/ \E t \in Threads : KeyTest(t)
    \/ \E t \in Threads : KeyExecute(t)
    \/ \E t \in Threads : KeyReturn(t)
    \/ \E p \in Procs : ClearLoop(p)
    \/ \E p \in Procs : ClearCheck(p)
    \/ \E p \in Procs : ClearCancel(p)
    \/ \E p \in Procs : ClearSet(p)
    \/ \E p \in Procs : ClearNone(p)
    \/ \E i \in TimerIds : TimerFire(i, hist)
    \/ \E i \in TimerIds : TimerExit(i)

DispatchSpec == Init /\ [][DispatchNext]_vars

ClientOf == [s1 |-> "10.0.0.1", s2 |-> "10.0.0.2"]
ServeRequests ==
    {<<"login", "good">>, <<"login", "bad">>, <<"logout", "">>, <<"index", "">>,
     <<"status", "">>, <<"volume", "">>, <<"action", "press_alt">>,
     <<"action", "nope">>, <<"app_toggle", "npp">>}
ServeDelays == {SessionTimeout + 1}
AtBudget ==
    \E c \in Clients : Len(ListOf(request_counts, c)) >= MAX_REQUESTS_PER_MINUTE
Between == Quiet /\ (\A t \in Threads : req[t].stage = "idle")
View(t, route) == req[t].stage = "view" /\ req[t].route = route
ServeNext ==
    \/ \E s \in Sessions, rn \in ServeRequests :
          /\ Between
          /\ StartedChecks(Clients) < MaxRequests
          /\ Receive(Worker, ClientOf[s], s, rn[1], rn[2])
    \/ \E t \in Threads : BeforeEnabled(t)
    \/ \E t \in Threads : BeforeRate(t)
    \/ \E t \in Threads : RateSetDefault(t)
    \/ \E t \in Threads : RatePrune(t)
    \/ \E t \in Threads : RateStore(t)
    \/ \E t \in Threads : RateTest(t)
    \/ \E t \in Threads : RateAppend(t)
    \/ \E t \in Threads : BeforeLimit(t)
    \/ \E t \in Threads : BeforeSession(t)
    \/ \E t \in Threads : Login(t)
    \/ \E t \in Threads : Logout(t)
    \/ \E t \in Threads : LoginRequired(t)
    \/ \E t \in Threads : Index(t)
    \/ \E t \in Threads : SetVolume(t)
    \/ \E t \in Threads : StatusStart(t)
    \/ \E t \in Threads : StatusReturn(t)
    \/ \E t \in Threads :
          /\ View(t, "action") /\ req[t].name \in DOMAIN ToggleActions
          /\ StartToggle(t, ToggleActions[req[t].name], hist)
    \/ \E t \in Threads : InvalidAction(t)
    \/ \E t \in Threads : ActionReturn(t)
    \/ \E t \in Threads : View(t, "app_toggle") /\ StartAppToggle(t, req[t].name, hist)
    \/ \E t \in Threads : AppToggleReturn(t)
    \/ \E t \in Threads : req[t].stage = "sent" /\ Respond(t)
    \/ \E t \in Threads : Finish(t)
    \/ \E t \in Threads : ToggleCheck(t)
    \/ \E t \in Threads : ToggleCancel(t)
    \/ \E t \in Threads : ToggleTest(t)
    \/ \E t \in Threads : ToggleRemove(t)
    \/ \E t \in Threads : ToggleAdd(t)
    \/ \E t \in Threads : ToggleExecute(t)
    \/ \E t \in Threads : ToggleNonEmpty(t)
    \/ \E t \in Threads : ToggleNewTimer(t)
    \/ \E t \in Threads : ToggleStart(t)
    \/ \E t \in Threads : ToggleReturn(t)
    \/ \E t \in Threads : CacheTest(t)
    \/ \E t \in Threads : CacheProbe(t)
    \/ \E t \in Threads : CacheStamp(t)
    \/ \E t \in Threads : AppRead(t)
    \/ \E t \in Threads : AppKill(t)
    \/ \E t \in Threads : AppLaunch(t)
    \/ \E t \in Threads : AppSleep(t)
    \/ \E t \in Threads : AppReturn(t)
    \/ \E p \in Procs : ClearLoop(p)
    \/ \E p \in Procs : ClearCheck(p)
    \/ \E p \in Procs : ClearCancel(p)
    \/ \E p \in Procs : ClearSet(p)
    \/ \E p \in Procs : ClearNone(p)
    \/ \E i \in TimerIds : Between /\ TimerFire(i, hist)
    \/ \E i \in TimerIds : TimerExit(i)
    \/ \E d \in ServeDelays : Between /\ AtBudget /\ nticks < MaxTicks /\ Tick(d)
    \/ \E P \in SUBSET Watched : Between /\ ProcessChange(P)
    \/ Between /\ ToggleAppEnabled

ServeSpec == Init /\ [][ServeNext]_vars

\* The request thread t is serving has had its rate check, and the check
\* answered False.
Rejected(t) ==
    /\ req[t].stage \in {"session", "route", "view", "status", "sent"}
    /\ response[t].status # 503
    /\ rl_log[req[t].client] # <<>>
    /\ ~rl_log[req[t].client][Len(rl_log[req[t].client])].allowed

\* The modifier set, its timer (the one the attribute names, and the timers
\* that are scheduled) and the process snapshot are what the request found
\* when it arrived.
Untouched(t) ==
    /\ active_modifiers = req[t].before.active_modifiers
    /\ modifier_key_timer = req[t].before.modifier_key_timer
    /\ LiveTimers = {i \in TimerIds : req[t].before.timer_state[i] = "waiting"}
    /\ running_apps_cache = req[t].before.running_apps_cache
    /\ last_cache_update = req[t].before.last_cache_update

\* C13: a request the rate limiter rejects is answered 429 at once, before
\* the session check and before any view: the client's list holds no new
\* timestamp (it is the list the request found, less the timestamps that left
\* the window), the session is as it was, no handler was started and no
\* command executed, and the modifier set, its timer and the process
\* snapshot are unchanged.
C13_RejectedMutatesNothing ==
    \A t \in Threads :
        Rejected(t) =>
            /\ req[t].stage = "sent"
            /\ response[t] = [status |-> 429, error |-> "Rate limit exceeded"]
            /\ LET Keep(ts) == InWindow(ts, req[t].before.clock)
               IN ListOf(request_counts, req[t].client) = SelectSeq(req[t].before.counts, Keep)
            /\ session[req[t].session] = req[t].before.session
            /\ pc[t] = "idle" /\ sent[t] = <<>> /\ result[t] = NoResult
            /\ ca_pc[t] = "idle"
            /\ Untouched(t)

\* C13's case: a request on a logged-in session, made while a modifier is
\* held and its timer runs, has been answered 429.
C13_Witness ==
    \E t \in Threads :
        /\ req[t].stage = "sent" /\ response[t].status = 429
        /\ req[t].route \in Protected
        /\ req[t].before.session.logged_in
        /\ req[t].before.active_modifiers # {}
        /\ req[t].before.modifier_key_timer # None
        /\ Len(req[t].before.counts) = MAX_REQUESTS_PER_MINUTE

\* C14: a logged-in session carries the time of its last activity; a request
\* on it is served only within the timeout of that time, and being served
\* sets the time to now.
C14_SessionTimeout ==
    /\ \A s \in Sessions : session[s].logged_in => session[s].last_activity # Absent
    /\ \A t \in Threads :
          (req[t].route \in Protected /\ req[t].stage \in {"view", "status"}) =>
              /\ req[t].before.session.last_activity # Absent
              /\ req[t].before.clock - req[t].before.session.last_activity <= SessionTimeout
              /\ session[req[t].session].last_activity = req[t].before.clock

\* A request for a protected route on a session that is not logged in
Unauthenticated(t) ==
    /\ req[t].stage # "idle"
    /\ req[t].route \in Protected
    /\ ~req[t].before.session.logged_in

\* C15: a request for a protected route on a session that is not logged in,
\* be it after a logout or without any login, never reaches its view: unless
\* before_request has turned it away itself (429, 503), it is redirected to
\* login; no handler is started, no command executed, and the modifier set,
\* its timer, the process snapshot and the session are unchanged.
C15_ProtectedNeedsLogin ==
    \A t \in Threads :
        Unauthenticated(t) =>
            /\ req[t].stage \in {"before", "rate", "session", "route", "sent"}
            /\ req[t].stage = "sent" =>
                  \/ response[t] = [status |-> 302, location |-> "login"]
                  \/ response[t].status \in {429, 503}
            /\ pc[t] = "idle" /\ sent[t] = <<>> /\ result[t] = NoResult
            /\ ca_pc[t] = "idle"
            /\ session[req[t].session] = NoSession
            /\ Untouched(t)

\* C15's case: while another session is logged in and a modifier is held, a
\* protected request on a session that is not logged in has been redirected.
C15_Witness ==
    \E t \in Threads :
        /\ Unauthenticated(t)
        /\ req[t].stage = "sent"
        /\ response[t] = [status |-> 302, location |-> "login"]
        /\ req[t].route = "action"
        /\ \E s \in Sessions : session[s].logged_in
        /\ active_modifiers # {}

\* C21: when checks are made one after another, the step that ends a check
\* made at time now for a client leaves that client's list with timestamps
\* younger than the window only (now - 60 < ts <= now: a timestamp exactly 60
\* seconds old is gone) and with at most MAX_REQUESTS_PER_MINUTE of them.
C21_LogWithinWindow ==
    [][\A t \in Threads :
          (rl_pc[t] \in {"rl_test", "rl_append"}
             /\ rl_pc'[t] \in {"return True", "return False"}) =>
              LET c == rl_local[t].client_ip
                  now == rl_local[t].now
                  log == request_counts'[c]
              IN /\ \A i \in 1..Len(log) : log[i] > now - Window /\ log[i] <= now
                 /\ Len(log) <= MAX_REQUESTS_PER_MINUTE]_vars

\* C21's case: a check has just ended that was made exactly one window after
\* an allowed check of the same client, whose timestamp the list has lost.
C21_Witness ==
    \E t \in Threads, c \in Clients :
        /\ rl_pc[t] \in {"return True", "return False"}
        /\ c \in DOMAIN request_counts
        /\ Len(rl_log[c]) >= 2
        /\ \E i \in 1..(Len(rl_log[c]) - 1) :
              /\ rl_log[c][i].allowed
              /\ rl_log[c][Len(rl_log[c])].at - rl_log[c][i].at = Window
              /\ \A k \in 1..Len(request_counts[c]) :
                    request_counts[c][k] # rl_log[c][i].at

\* C22: a request that arrives while the tray's switch is off is answered
\* 503 by before_request before the rate limiter runs: no check is started
\* for it and the client's list is the one it found, the session is as it
\* was, no handler is started and no command executed, and the modifier set,
\* its timer and the process snapshot are unchanged.  Using the switch, off
\* or on again, changes the switch and nothing else.
C22_DisabledRejectsAll ==
    /\ [](\A t \in Threads :
            (req[t].stage # "idle" /\ ~app_enabled) =>
                /\ req[t].stage \in {"before", "sent"}
                /\ req[t].stage = "sent" =>
                      response[t] = [status |-> 503,
                                     error |-> "App is disabled from system tray"]
                /\ rl_pc[t] = "idle"
                /\ ListOf(request_counts, req[t].client) = req[t].before.counts
                /\ session[req[t].session] = req[t].before.session
                /\ pc[t] = "idle" /\ sent[t] = <<>> /\ result[t] = NoResult
                /\ ca_pc[t] = "idle"
                /\ Untouched(t))
    /\ [][app_enabled' # app_enabled =>
             UNCHANGED <<session, req, response, mvars, rvars, cvars>>]_vars

\* C22's case: with the switch off, a request of a client that has used part
\* of its budget, on a logged-in session and with a modifier held, has been
\* answered 503.
C22_Witness ==
    \E t \in Threads :
        /\ ~app_enabled
        /\ req[t].stage = "sent" /\ response[t].status = 503
        /\ req[t].before.session.logged_in
        /\ req[t].before.active_modifiers # {}
        /\ req[t].before.counts # <<>>

\* C23: when toggles, key presses and timer firings run one after another,
\* in every state between two of them a modifier is in self.active_modifiers
\* exactly when the latest key event command issued for it is its key-down;
\* a modifier that is not in the set has had no key event or a key-up last.
C23_SetAgreesWithKeyEvents ==
    Quiet =>
        \A m \in Modifiers :
            /\ (m \in active_modifiers) <=> (last_key_cmd[m] = "down")
            /\ (m \notin active_modifiers) => last_key_cmd[m] \in {"none", "up"}

\* C23's case: after a timer has fired, one modifier is held, another has
\* been released and the third was never pressed.
C23_Witness ==
    /\ Quiet
    /\ \E i \in 1..Len(hist) : hist[i] = Op("fire", "")
    /\ \E m \in Modifiers : m \in active_modifiers /\ last_key_cmd[m] = "down"
    /\ \E m \in Modifiers : m \notin active_modifiers /\ last_key_cmd[m] = "up"
    /\ \E m \in Modifiers : m \notin active_modifiers /\ last_key_cmd[m] = "none"
====
